---- MODULE Spec2Model ----
(***************************************************************************)
(* TokenGate: the budget ledger (src/src/budget/manager.py), the          *)
(* administration tool's direct store access (src/tokengate_cli.py), the  *)
(* admission pipeline (src/src/proxy/router.py) and the anomaly engine    *)
(* (src/src/anomaly/detector.py), over one shared key-value store.        *)
(*                                                                         *)
(* Money is counted in whole currency units.  The ledger stores str(x)    *)
(* and reads it back through Decimal(str(x)); on decimal literals that    *)
(* pair is exact, so a stored amount is modelled by its value.  A key     *)
(* that is absent reads as None.                                          *)
(*                                                                         *)
(* Every store command is one atomic step; a MULTI/EXEC pipeline is one   *)
(* atomic step.  A process is one in-flight call (a gateway request, a    *)
(* dashboard call or a run of the command-line tool).                     *)
(***************************************************************************)
EXTENDS Integers, Sequences, FiniteSets, TLC

\* ------------------------------------------------------------------ bounds
MaxSpent == 12
MaxCost == 3
MaxRequests == 3
MaxTicks == 1
TickSeconds == 60
MaxKeyLen == 2
MaxNameLen == 3
MaxCatalog == 2

\* ---------------------------------------------------------- program values
default_budget == 10

None == 0 - 1

Sessions == {"s1", "s2"}
Procs == {"p1", "p2"}
Costs == {0, 3, 6}
Amounts == {3, default_budget + 2}
SeqCosts == 0..MaxCost
SeqAmounts == {0, 3, default_budget + 2}
Statuses == {200, 429, 500, 502, 504}

\* AnomalyDetector.__init__: the thresholds.
max_requests_per_minute == 100
max_identical_requests == 3
velocity_threshold == 1
freeze_duration_seconds == 300
\* The expiries check_anomalies and _log_request give to their keys, and the
\* length _log_request trims the history to.
request_count_ttl == 60
identical_count_ttl == 300
last_hash_ttl == 300
velocity_ttl == 120
velocity_window == 60
history_ttl == 3600
history_keep == 100
\* TokenGateCLI.freeze_session: the expiry it gives to the freeze keys.
cli_freeze_ttl == 3600

\* The clock reads seconds since the epoch; the run starts at EpochStart.
EpochStart == 1700000000

Models == {"gpt-4"}
Messages == {"a", "b"}

VARIABLES budget, spent, pc, kind, sess, cost, rbudget, rspent, last, charged, explicitSet, touched, everSet, everDeducted

\* The anomaly engine's keys (one per session), the clock, the locals of a
\* running check_anomalies call, and the bookkeeping of the rate check.
VARIABLES now, request_count, last_request_hash, identical_count, spend_velocity, request_history, frozen_until, freeze_reason, req, cnt, ident, reason, vnow, life, lifetime, passedRate, warm, quota

\* What is recorded about calls for the properties: whether the session was
\* frozen when a running call started, when each request counter was
\* created, whether a running call has done the lazy cleanup, the run of
\* identical requests of each session, the administrative command last
\* applied to each session and still current ("unfrozen" after an explicit
\* unfreeze of a rate or loop freeze, "frozen" after a command-line freeze),
\* and that mark as a running call found it when it started.
VARIABLES startFrozen, created, cleaned, streak, adminMark, markAtStart

\* The steps a gateway request has been through so far, with their results;
\* empty for any other call.
VARIABLES trace

\* Observation: the ledger keys of the session as a gateway request found
\* them when it was received.
VARIABLES snap

\* process_request's locals status_code and response_body (its usage) once
\* the upstream call has returned.
VARIABLES upstream

\* The inbound request a gateway request is serving: endpoint, body, session
\* id header and query parameter, and the strict_mode setting in force.
VARIABLES inbound

\* One call of the price catalog: the catalog's keys in the order the
\* dictionary holds them, the model name asked for, and what the call gave.
VARIABLES lookup

\* No catalog call is being looked at; a result of <<>> is a call that has
\* not returned.
NoLookup == [prices |-> <<>>, model |-> <<>>, result |-> <<>>]

\* No gateway request is in progress: nothing was found.
NoSnap == [budget |-> None, spent |-> None]

\* No inbound request is being served; in a request, "" is a member, a
\* header or a parameter that is missing.
NoInbound == [ep |-> "", json |-> "", model |-> "", messages |-> "", input |-> "", header |-> "", query |-> "", strict |-> FALSE]

\* The upstream call has not returned.
NoUpstream == [status |-> 0, usage |-> None]

storeVars == <<budget, spent>>
procVars == <<pc, kind, sess, cost, rbudget, rspent>>
ghostVars == <<last, charged, explicitSet, touched, everSet, everDeducted>>
anomStore == <<now, request_count, last_request_hash, identical_count, spend_velocity, request_history, frozen_until, freeze_reason>>
anomLocals == <<req, cnt, ident, reason, vnow, life>>
anomGhost == <<lifetime, passedRate, warm, quota>>
obsVars == <<startFrozen, created, cleaned, streak, adminMark, markAtStart>>
anomVars == <<anomStore, anomLocals, anomGhost, obsVars>>
vars == <<budget, spent, pc, kind, sess, cost, rbudget, rspent, last, charged, explicitSet, touched, everSet, everDeducted, anomVars, trace, snap, upstream, inbound, lookup>>

\* ------------------------------------------------------ ledger: pure reads
\* BudgetManager.get_budget: the stored limit, None when the key is absent.
get_budget(s) == budget[s]

\* BudgetManager.get_spent: the stored spend, 0 when the key is absent.
get_spent(s) == IF spent[s] = None THEN 0 ELSE spent[s]

Max(a, b) == IF a >= b THEN a ELSE b

\* Mutant: no fallback to the configured default when no limit is stored.
get_budget_info_no_default(s) ==
    LET b == IF get_budget(s) = None THEN 0 ELSE get_budget(s)
        sp == get_spent(s)
    IN  [budget |-> b, spent |-> sp, remaining |-> Max(0, b - sp)]

\* BudgetManager.get_budget_info: limit (default when absent), spent, clamped rest.
get_budget_info(s) ==
    LET b == IF get_budget(s) = None THEN default_budget ELSE get_budget(s)
        sp == get_spent(s)
    IN  [budget |-> b, spent |-> sp, remaining |-> Max(0, b - sp)]

\* Mutant: a strict comparison, refusing a cost equal to what is left.
SufficientStrict(bv, sv, e) ==
    LET sp == IF sv = None THEN 0 ELSE sv
    IN  (bv - sp) > e

\* check_budget, lines 130-142: the comparison on the values read.
Sufficient(bv, sv, e) ==
    LET sp == IF sv = None THEN 0 ELSE sv
    IN  (bv - sp) >= e

\* Mutant: the cost overwrites the spent instead of being added to it.
NewSpentOverwrite(sv, c) == c

\* deduct_cost, lines 180-188: the new spent from the value read.
NewSpent(sv, c) ==
    LET sp == IF sv = None THEN 0 ELSE sv
    IN  sp + c

\* The run of identical consecutive requests that reached the loop check:
\* the digest they share, how many they are so far, whether the run began
\* with no fingerprint stored for the session, and the length of the run
\* before it.
NoStreak == [h |-> <<>>, n |-> 0, fresh |-> FALSE, prev |-> 0]

Streak(old, h, stored) ==
    IF old.h = h THEN [old EXCEPT !.n = @ + 1] ELSE [h |-> h, n |-> 1, fresh |-> stored = <<>>, prev |-> old.n]

\* The last call that returned, with its argument and result; NoLast once a
\* later call has started or time has passed.
NoInfo == [model |-> "", messages |-> "", max_tokens |-> 0 - 1, cost |-> 0, rsn |-> <<>>, wasFrozen |-> FALSE, cleaned |-> FALSE, mark |-> "none", run |-> NoStreak, decision |-> "", steps |-> <<>>, before |-> NoSnap, up |-> NoUpstream, request |-> NoInbound]

NoLast == [op |-> "none", sess |-> "s1", arg |-> 0, ok |-> FALSE, val |-> 0, why |-> "", info |-> NoInfo]

Done(o, s, a, k, v) == [op |-> o, sess |-> s, arg |-> a, ok |-> k, val |-> v, why |-> "", info |-> NoInfo]

\* The upstream body carried a usage that is not an object (null, a text):
\* reading its token counts raises.
BadUsage == 0 - 2

\* The upstream body carried a usage whose token counts cannot be priced:
\* calculate_actual_cost raises.
UnpricedUsage == 0 - 3

\* A key with an expiry: its value and the time it expires at (None: never).
\* An absent key reads as None (a number), as the empty string (a text) or
\* as the empty list.
AbsentInt == [v |-> None, exp |-> None]
AbsentText == [v |-> <<>>, exp |-> None]
NoReq == [model |-> "", messages |-> "", max_tokens |-> None]

\* The anomaly engine over an empty store, no call running.
AnomalyInit ==
    /\ now = EpochStart
    /\ request_count = [s \in Sessions |-> AbsentInt]
    /\ last_request_hash = [s \in Sessions |-> AbsentText]
    /\ identical_count = [s \in Sessions |-> AbsentInt]
    /\ spend_velocity = [s \in Sessions |-> AbsentText]
    /\ request_history = [s \in Sessions |-> AbsentText]
    /\ frozen_until = [s \in Sessions |-> AbsentInt]
    /\ freeze_reason = [s \in Sessions |-> AbsentText]
    /\ req = [p \in Procs |-> NoReq]
    /\ cnt = [p \in Procs |-> 0]
    /\ ident = [p \in Procs |-> 0]
    /\ reason = [p \in Procs |-> <<>>]
    /\ vnow = [p \in Procs |-> 0]
    /\ life = [p \in Procs |-> 0]
    /\ lifetime = [s \in Sessions |-> 0]
    /\ passedRate = [s \in Sessions |-> 0]
    /\ startFrozen = [p \in Procs |-> FALSE]
    /\ created = [s \in Sessions |-> None]
    /\ cleaned = [p \in Procs |-> FALSE]
    /\ streak = [s \in Sessions |-> NoStreak]
    /\ adminMark = [s \in Sessions |-> "none"]
    /\ markAtStart = [p \in Procs |-> "none"]
    /\ trace = [p \in Procs |-> <<>>]
    /\ snap = [p \in Procs |-> NoSnap]
    /\ upstream = [p \in Procs |-> NoUpstream]
    /\ inbound = [p \in Procs |-> NoInbound]

Init ==
    /\ AnomalyInit
    /\ lookup = NoLookup
    /\ warm = 0
    /\ quota = 0
    /\ budget = [s \in Sessions |-> None]
    /\ spent = [s \in Sessions |-> None]
    /\ pc = [p \in Procs |-> "idle"]
    /\ kind = [p \in Procs |-> "none"]
    /\ sess = [p \in Procs |-> "s1"]
    /\ cost = [p \in Procs |-> 0]
    /\ rbudget = [p \in Procs |-> None]
    /\ rspent = [p \in Procs |-> None]
    /\ last = NoLast
    /\ charged = [s \in Sessions |-> 0]
    /\ explicitSet = [s \in Sessions |-> FALSE]
    /\ touched = [s \in Sessions |-> FALSE]
    /\ everSet = [s \in Sessions |-> FALSE]
    /\ everDeducted = [s \in Sessions |-> FALSE]

Idle(p) == pc[p] = "idle"

\* A gateway request has completed one more step; other calls keep no trace.
Traced(tr, step) == IF tr = <<>> THEN tr ELSE Append(tr, step)

\* process_request returns a response: arg is the HTTP status, why the type
\* of the error body ("" when the upstream body is passed on), val the usage
\* of the body passed on (None: none), decision what log_request recorded,
\* steps the steps the request went through, the last one included, and
\* before the ledger keys the request found, up what the upstream call
\* returned.
Response(p, st, et, dec, body, step) ==
    [op |-> "process_request", sess |-> sess[p], arg |-> st, ok |-> st = 200, val |-> body, why |-> et,
     info |-> [NoInfo EXCEPT !.cost = cost[p], !.decision = dec, !.steps = Append(trace[p], step), !.before = snap[p], !.request = inbound[p]]]

\* Mutant: an anomalous request is answered like one short of budget.
AnomalyRejectionAsQuota == [status |-> 429, type |-> "insufficient_quota", decision |-> "blocked"]

\* process_request lines 82-99: what an anomalous request is answered and
\* what log_request records for it.
AnomalyRejection == [status |-> 429, type |-> "rate_limit_exceeded", decision |-> "blocked_anomaly"]

\* process_request lines 206-229: the upstream status and body are
\* returned, logged as allowed on status 200 and as error otherwise.
Returned(p, st, usage, step) ==
    [Response(p, st, "", IF st = 200 THEN "allowed" ELSE "error", usage, step) EXCEPT !.info.up = [status |-> st, usage |-> usage]]

\* The result the observer sees: of the gateway request when the call was
\* made by one, of the direct call otherwise.
Answered(p, direct, response) == IF trace[p] # <<>> THEN response ELSE direct

\* A call returns: the process is free again and its locals are dropped.
Return(p) ==
    /\ pc' = [pc EXCEPT ![p] = "idle"]
    /\ kind' = [kind EXCEPT ![p] = "none"]
    /\ sess' = [sess EXCEPT ![p] = "s1"]
    /\ cost' = [cost EXCEPT ![p] = 0]
    /\ rbudget' = [rbudget EXCEPT ![p] = None]
    /\ rspent' = [rspent EXCEPT ![p] = None]
    /\ trace' = [trace EXCEPT ![p] = <<>>]
    /\ snap' = [snap EXCEPT ![p] = NoSnap]
    /\ upstream' = [upstream EXCEPT ![p] = NoUpstream]
    /\ inbound' = [inbound EXCEPT ![p] = NoInbound]

\* ------------------------------------------------------------- set_budget
\* BudgetManager.set_budget: one SET of the budget key.
SetBudget(p, s, a) ==
    /\ Idle(p)
    /\ budget' = [budget EXCEPT ![s] = a]
    /\ explicitSet' = [explicitSet EXCEPT ![s] = TRUE]
    /\ touched' = [touched EXCEPT ![s] = TRUE]
    /\ everSet' = [everSet EXCEPT ![s] = TRUE]
    /\ last' = Done("set_budget", s, 0, TRUE, 0)
    /\ UNCHANGED <<spent, procVars, charged, everDeducted, anomVars, trace, snap, upstream, inbound, lookup>>

\* TokenGateCLI.set_budget: the same SET, issued by the command-line tool.
CliSetBudget(p, s, a) ==
    /\ Idle(p)
    /\ budget' = [budget EXCEPT ![s] = a]
    /\ explicitSet' = [explicitSet EXCEPT ![s] = TRUE]
    /\ touched' = [touched EXCEPT ![s] = TRUE]
    /\ everSet' = [everSet EXCEPT ![s] = TRUE]
    /\ last' = Done("cli_set_budget", s, 0, TRUE, 0)
    /\ UNCHANGED <<spent, procVars, charged, everDeducted, anomVars, trace, snap, upstream, inbound, lookup>>

\* ---------------------------------------------------------------- reads
\* A caller invokes get_budget; nothing is written.
GetBudget(p, s) ==
    /\ Idle(p)
    /\ last' = Done("get_budget", s, 0, TRUE, 0)
    /\ UNCHANGED <<storeVars, procVars, charged, explicitSet, touched, everSet, everDeducted, anomVars, trace, snap, upstream, inbound, lookup>>

\* A caller invokes get_budget_info; nothing is written.
GetBudgetInfo(p, s) ==
    /\ Idle(p)
    /\ last' = Done("get_budget_info", s, 0, TRUE, 0)
    /\ UNCHANGED <<storeVars, procVars, charged, explicitSet, touched, everSet, everDeducted, anomVars, trace, snap, upstream, inbound, lookup>>

\* ------------------------------------------------------------ check_budget
\* A direct call of check_budget(s, e), or a gateway request entering the
\* budget step with estimate e.
StartCheck(p, s, e, k) ==
    /\ Idle(p)
    /\ k \in {"check", "request"}
    /\ pc' = [pc EXCEPT ![p] = "cb_get_budget"]
    /\ kind' = [kind EXCEPT ![p] = k]
    /\ sess' = [sess EXCEPT ![p] = s]
    /\ cost' = [cost EXCEPT ![p] = e]
    /\ last' = NoLast
    /\ UNCHANGED <<storeVars, rbudget, rspent, charged, explicitSet, touched, everSet, everDeducted, anomVars, trace, snap, upstream, inbound, lookup>>

\* Mutant: check_budget waits while another request is at the upstream.
CheckGetBudgetLocked(p) ==
    /\ pc[p] = "cb_get_budget"
    /\ \A q \in Procs \ {p} : pc[q] # "forward"
    /\ rbudget' = [rbudget EXCEPT ![p] = budget[sess[p]]]
    /\ pc' = [pc EXCEPT ![p] = IF budget[sess[p]] = None THEN "cb_set_default" ELSE "cb_get_spent"]
    /\ UNCHANGED <<storeVars, kind, sess, cost, rspent, ghostVars, anomVars, trace, snap, upstream, inbound, lookup>>

\* check_budget line 125: GET budget.
CheckGetBudget(p) ==
    /\ pc[p] = "cb_get_budget"
    /\ rbudget' = [rbudget EXCEPT ![p] = budget[sess[p]]]
    /\ pc' = [pc EXCEPT ![p] = IF budget[sess[p]] = None THEN "cb_set_default" ELSE "cb_get_spent"]
    /\ UNCHANGED <<storeVars, kind, sess, cost, rspent, ghostVars, anomVars, trace, snap, upstream, inbound, lookup>>

\* The value check_budget persists when no limit is stored (line 127).
CheckDefault == default_budget

\* check_budget lines 127-128: persist the default limit.
CheckSetDefault(p) ==
    /\ pc[p] = "cb_set_default"
    /\ budget' = [budget EXCEPT ![sess[p]] = CheckDefault]
    /\ rbudget' = [rbudget EXCEPT ![p] = CheckDefault]
    /\ pc' = [pc EXCEPT ![p] = "cb_get_spent"]
    /\ UNCHANGED <<spent, kind, sess, cost, rspent, ghostVars, anomVars, trace, snap, upstream, inbound, lookup>>

\* check_budget lines 131-142: GET spent, compare, return.  A direct call
\* returns to its caller; a request goes on to the upstream call or is
\* answered 429 insufficient_quota.
CheckGetSpent(p) ==
    /\ pc[p] = "cb_get_spent"
    /\ LET has == Sufficient(rbudget[p], spent[sess[p]], cost[p])
       IN  /\ last' = Answered(p, Done("check_budget", sess[p], cost[p], has, 0),
                                IF has THEN Done("check_budget", sess[p], cost[p], has, 0)
                                ELSE Response(p, 429, "insufficient_quota", "blocked", None, "budget_short"))
           /\ IF kind[p] = "request" /\ has
              THEN /\ pc' = [pc EXCEPT ![p] = "forward"]
                   /\ rbudget' = [rbudget EXCEPT ![p] = None]
                   /\ trace' = [trace EXCEPT ![p] = Traced(@, "budget_ok")]
                   /\ UNCHANGED <<kind, sess, cost, rspent, snap, upstream, inbound>>
              ELSE Return(p)
    /\ touched' = [touched EXCEPT ![sess[p]] = TRUE]
    /\ UNCHANGED <<storeVars, charged, explicitSet, everSet, everDeducted, anomVars, lookup>>

\* ---------------------------------------------------------------- upstream
\* process_request lines 165-187: the actual cost is the price of the usage
\* of a status-200 body; 0 without a usage or when pricing raises (caught).
Charge(st, usage) == IF st = 200 /\ usage \notin {None, UnpricedUsage} THEN usage ELSE 0

\* Mutant: deduct_cost is called whatever the upstream returned.
AfterUpstreamAlways(st, actual) == "dc_read"

\* Mutant: a failed upstream call is made again.
AfterUpstreamRetry(st, actual) == IF st = 200 THEN (IF actual > 0 THEN "dc_read" ELSE "idle") ELSE "forward"

\* process_request lines 157-229: after the one upstream call the request
\* goes on to deduct_cost (status 200, positive actual cost) or returns.
AfterUpstream(st, actual) == IF st = 200 /\ actual > 0 THEN "dc_read" ELSE "idle"

\* process_request lines 158-229: the upstream call returns a status and,
\* possibly, a usage whose price is the actual cost; the cost is deducted
\* only on status 200 with a positive actual cost, and the upstream status
\* and body are returned. Reading a usage that is not an object raises
\* outside every try block (lines 170-172).
Forward(p, st, usage) ==
    /\ pc[p] = "forward"
    /\ LET actual == Charge(st, usage)
           raised == st = 200 /\ usage = BadUsage
           next == IF raised THEN "idle" ELSE AfterUpstream(st, actual)
       IN  IF next = "dc_read"
           THEN /\ pc' = [pc EXCEPT ![p] = next]
                /\ kind' = [kind EXCEPT ![p] = "deduct"]
                /\ cost' = [cost EXCEPT ![p] = actual]
                /\ rbudget' = [rbudget EXCEPT ![p] = None]
                /\ rspent' = [rspent EXCEPT ![p] = None]
                /\ trace' = [trace EXCEPT ![p] = Traced(@, "forward")]
                /\ upstream' = [upstream EXCEPT ![p] = [status |-> st, usage |-> usage]]
                /\ UNCHANGED <<sess, snap, inbound, last>>
           ELSE IF next = "idle"
           THEN /\ Return(p)
                /\ last' = Answered(p, last,
                                    IF raised THEN [Response(p, 500, "unhandled", "", None, "forward") EXCEPT !.info.up = [status |-> st, usage |-> usage]]
                                    ELSE Returned(p, st, usage, "forward"))
           ELSE /\ trace' = [trace EXCEPT ![p] = Traced(@, "forward")]
                /\ UNCHANGED <<procVars, snap, upstream, inbound, last>>
    /\ UNCHANGED <<storeVars, charged, explicitSet, touched, everSet, everDeducted, anomVars, lookup>>

\* ------------------------------------------------------------- deduct_cost
\* A direct call of deduct_cost(s, c).
StartDeduct(p, s, c) ==
    /\ Idle(p)
    /\ get_spent(s) + c <= MaxSpent
    /\ pc' = [pc EXCEPT ![p] = "dc_read"]
    /\ kind' = [kind EXCEPT ![p] = "deduct"]
    /\ sess' = [sess EXCEPT ![p] = s]
    /\ cost' = [cost EXCEPT ![p] = c]
    /\ last' = NoLast
    /\ UNCHANGED <<storeVars, rbudget, rspent, charged, explicitSet, touched, everSet, everDeducted, anomVars, trace, snap, upstream, inbound, lookup>>

\* Mutant: the default limit is not persisted by deduct_cost.
DeductBudgetNotPersisted(rb, cur) == cur

\* deduct_cost lines 176-178: the budget key after the second pipeline, the
\* default when the first pipeline read none, else left as it is.
DeductBudget(rb, cur) == IF rb = None THEN default_budget ELSE cur

\* deduct_cost lines 165-173: the first pipeline, GET budget and GET spent.
DeductRead(p) ==
    /\ pc[p] = "dc_read"
    /\ rbudget' = [rbudget EXCEPT ![p] = budget[sess[p]]]
    /\ rspent' = [rspent EXCEPT ![p] = spent[sess[p]]]
    /\ pc' = [pc EXCEPT ![p] = "dc_write"]
    /\ UNCHANGED <<storeVars, kind, sess, cost, ghostVars, anomVars, trace, snap, upstream, inbound, lookup>>

\* Mutant: every session's spend is kept under the key of s1.
get_spent_key_shared(s) == "s1"

\* BudgetManager._get_spent_key: session:<id>:spent, one key per session id;
\* the store is indexed by the session the key belongs to.
get_spent_key(s) == s

\* deduct_cost lines 176-195: the second pipeline, SET budget to the default
\* when none was read, SET spent to the value read plus the cost.
DeductWrite(p) ==
    /\ pc[p] = "dc_write"
    /\ NewSpent(rspent[p], cost[p]) <= MaxSpent
    /\ charged[sess[p]] + cost[p] <= MaxSpent
    /\ LET s == sess[p]
           ns == NewSpent(rspent[p], cost[p])
       IN  /\ budget' = [budget EXCEPT ![s] = DeductBudget(rbudget[p], @)]
           /\ spent' = [spent EXCEPT ![get_spent_key(s)] = ns]
           /\ charged' = [charged EXCEPT ![s] = @ + cost[p]]
           /\ everDeducted' = [everDeducted EXCEPT ![s] = TRUE]
           /\ touched' = [touched EXCEPT ![s] = TRUE]
           /\ last' = Answered(p, Done("deduct_cost", s, 0, TRUE, 0), Returned(p, upstream[p].status, upstream[p].usage, "deducted"))
    /\ Return(p)
    /\ UNCHANGED <<explicitSet, everSet, anomVars, lookup>>

\* ------------------------------------------------------------------ reset
\* Mutant: the reset deletes the budget key and leaves the spent key.
ResetSessionBudgetOnly(p, s) ==
    /\ Idle(p)
    /\ budget' = [budget EXCEPT ![s] = None]
    /\ explicitSet' = [explicitSet EXCEPT ![s] = FALSE]
    /\ touched' = [touched EXCEPT ![s] = FALSE]
    /\ last' = Done("reset_session", s, budget[s], TRUE, spent[s])
    /\ UNCHANGED <<spent, charged, procVars, everSet, everDeducted, anomVars, trace, snap, upstream, inbound, lookup>>

\* BudgetManager.reset_session (also the dashboard's reset route): one
\* MULTI/EXEC pipeline deleting both keys.
ResetSession(p, s) ==
    /\ Idle(p)
    /\ budget' = [budget EXCEPT ![s] = None]
    /\ spent' = [spent EXCEPT ![s] = None]
    /\ charged' = [charged EXCEPT ![s] = 0]
    /\ explicitSet' = [explicitSet EXCEPT ![s] = FALSE]
    /\ touched' = [touched EXCEPT ![s] = FALSE]
    /\ last' = Done("reset_session", s, budget[s], TRUE, spent[s])
    /\ UNCHANGED <<procVars, everSet, everDeducted, anomVars, trace, snap, upstream, inbound, lookup>>

\* TokenGateCLI.reset_session line 62: DEL of the budget key.
CliResetBudget(p, s) ==
    /\ Idle(p)
    /\ budget' = [budget EXCEPT ![s] = None]
    /\ explicitSet' = [explicitSet EXCEPT ![s] = FALSE]
    /\ touched' = [touched EXCEPT ![s] = FALSE]
    /\ pc' = [pc EXCEPT ![p] = "cli_reset_spent"]
    /\ kind' = [kind EXCEPT ![p] = "cli_reset"]
    /\ sess' = [sess EXCEPT ![p] = s]
    /\ last' = NoLast
    /\ UNCHANGED <<spent, cost, rbudget, rspent, charged, everSet, everDeducted, anomVars, trace, snap, upstream, inbound, lookup>>

\* TokenGateCLI.reset_session line 63: DEL of the spent key.
CliResetSpent(p) ==
    /\ pc[p] = "cli_reset_spent"
    /\ spent' = [spent EXCEPT ![sess[p]] = None]
    /\ charged' = [charged EXCEPT ![sess[p]] = 0]
    /\ last' = Done("cli_reset_session", sess[p], None, TRUE, spent[sess[p]])
    /\ Return(p)
    /\ UNCHANGED <<budget, explicitSet, touched, everSet, everDeducted, anomVars, lookup>>

\* ------------------------------------------------------------ next-state
Step(p, S, C, A) ==
    \/ \E s \in S, a \in A : SetBudget(p, s, a)
    \/ \E s \in S, a \in A : CliSetBudget(p, s, a)
    \/ \E s \in S : GetBudget(p, s)
    \/ \E s \in S : GetBudgetInfo(p, s)
    \/ \E s \in S, e \in C, k \in {"check", "request"} : StartCheck(p, s, e, k)
    \/ CheckGetBudget(p)
    \/ CheckSetDefault(p)
    \/ CheckGetSpent(p)
    \/ \E st \in Statuses, u \in C \cup {None} : Forward(p, st, u)
    \/ \E s \in S, c \in C : StartDeduct(p, s, c)
    \/ DeductRead(p)
    \/ DeductWrite(p)
    \/ \E s \in S : ResetSession(p, s)
    \/ \E s \in S : CliResetBudget(p, s)
    \/ CliResetSpent(p)

LedgerSessions == {"s1"}

Next == \E p \in Procs : Step(p, LedgerSessions, Costs, Amounts)

Spec == Init /\ [][Next]_vars

\* Single-threaded access: a call runs to its end before another starts.
NextSeq == \E p \in Procs : (\A q \in Procs \ {p} : Idle(q)) /\ Step(p, LedgerSessions, SeqCosts, SeqAmounts)

SpecSeq == Init /\ [][NextSeq]_vars

\* Gateway requests only: every deduction follows an admitting check_budget,
\* and the upstream never bills more than the estimate that was admitted.
ReqStep(p, S, C) ==
    \/ \E s \in S, e \in C : StartCheck(p, s, e, "request")
    \/ CheckGetBudget(p)
    \/ CheckSetDefault(p)
    \/ CheckGetSpent(p)
    \/ \E st \in Statuses, u \in C \cup {None} : u <= cost[p] /\ Forward(p, st, u)
    \/ DeductRead(p)
    \/ DeductWrite(p)

NextReq == \E p \in Procs : ReqStep(p, LedgerSessions, Costs)

SpecReq == Init /\ [][NextReq]_vars

\* Concurrent direct deduct_cost calls on a session with a limit set.
DeductStep(p, S, C, A) ==
    \/ \E s \in S, a \in A : budget[s] = None /\ SetBudget(p, s, a)
    \/ \E s \in S, c \in C : StartDeduct(p, s, c)
    \/ DeductRead(p)
    \/ DeductWrite(p)

NextDeduct == \E p \in Procs : DeductStep(p, LedgerSessions, SeqCosts, Amounts)

SpecDeduct == Init /\ [][NextDeduct]_vars

\* ---------------------------------------------------------- anomaly engine
ledgerKeep == <<budget, spent, rbudget, rspent, charged, explicitSet, touched, everSet, everDeducted>>

ledgerFrame == <<ledgerKeep, trace, snap, upstream, inbound>>

\* _get_request_hash: the digest of (model, messages, max_tokens), where a
\* falsy messages value ("none": None, "empty": []) is replaced by "".  The
\* digest is modelled by the triple it is computed from.
request_hash(r) ==
    <<r.model, IF r.messages \in {"none", "empty", ""} THEN "" ELSE r.messages, r.max_tokens>>

\* The session is frozen: frozen_until is stored and lies in the future.
IsFrozen(s) == frozen_until[s].v # None /\ now < frozen_until[s].v

\* Neither freeze key of the session is stored.
FreezeKeysAbsent(s) == frozen_until[s] = AbsentInt /\ freeze_reason[s] = AbsentText

\* A freeze of the session is complete and in force: both keys are stored.
FrozenWithReason(s) == IsFrozen(s) /\ freeze_reason[s] # AbsentText

\* EXPIRE key ttl: no effect on an absent key.
Expire(k, absent, ttl) == IF k = absent THEN k ELSE [k EXCEPT !.exp = now + ttl]

\* The store drops a key once its expiry time is reached.
Purge(k, absent, t) == IF k.exp # None /\ k.exp <= t THEN absent ELSE k

RECURSIVE SumScores(_)
SumScores(z) == IF z = <<>> THEN 0 ELSE Head(z).score + SumScores(Tail(z))

RECURSIVE RemoveByScore(_, _, _)
\* ZREMRANGEBYSCORE key lo hi: drop the entries whose score is in [lo, hi].
RemoveByScore(z, lo, hi) ==
    IF z = <<>> THEN <<>>
    ELSE IF lo <= Head(z).score /\ Head(z).score <= hi
         THEN RemoveByScore(Tail(z), lo, hi)
         ELSE <<Head(z)>> \o RemoveByScore(Tail(z), lo, hi)

\* Mutant: the ceiling-th request is already refused.
RateExceededAtCeiling(n) == n >= max_requests_per_minute

\* check_anomalies line 89: the rate comparison.
RateExceeded(n) == n > max_requests_per_minute

\* check_anomalies line 104: the loop comparison.
LoopDetected(n) == n >= max_identical_requests

\* check_anomalies line 133: the velocity comparison.
VelocityExceeded(total) == total > velocity_threshold

\* The result of a check_anomalies call: arg is the post-increment request
\* count (0 when the call returned before counting), ok the anomalous flag,
\* why the kind of the reason.
DoneAnomaly(s, n, anomalous, w) ==
    [op |-> "check_anomalies", sess |-> s, arg |-> n, ok |-> anomalous, val |-> 0, why |-> w, info |-> NoInfo]

\* What the call of process p was given, the freeze reason r it read (none:
\* the empty tuple), whether the session was frozen when it started and
\* whether the call deleted an expired freeze.
CallInfo(p, r) ==
    [model |-> req[p].model, messages |-> req[p].messages, max_tokens |-> req[p].max_tokens, cost |-> cost[p], rsn |-> r, wasFrozen |-> startFrozen[p], cleaned |-> cleaned[p], mark |-> markAtStart[p], run |-> streak[sess[p]], decision |-> "", steps |-> <<>>, before |-> NoSnap, up |-> NoUpstream, request |-> NoInbound]

\* The locals of a check_anomalies call are dropped.
DropLocals(p) ==
    /\ req' = [req EXCEPT ![p] = NoReq]
    /\ cnt' = [cnt EXCEPT ![p] = 0]
    /\ ident' = [ident EXCEPT ![p] = 0]
    /\ reason' = [reason EXCEPT ![p] = <<>>]
    /\ vnow' = [vnow EXCEPT ![p] = 0]
    /\ life' = [life EXCEPT ![p] = 0]
    /\ startFrozen' = [startFrozen EXCEPT ![p] = FALSE]
    /\ cleaned' = [cleaned EXCEPT ![p] = FALSE]
    /\ markAtStart' = [markAtStart EXCEPT ![p] = "none"]

\* check_anomalies returns to a direct caller: the process is free again.
AReturn(p) ==
    /\ Return(p)
    /\ DropLocals(p)

\* Mutant: the gateway goes on to the estimate whatever the anomaly check
\* returned.
AfterAnomalyIgnored(anomalous) == "estimate"

\* process_request lines 82-99: an anomalous request is answered 429, any
\* other goes on to the cost estimate.
AfterAnomaly(anomalous) == IF anomalous THEN "idle" ELSE "estimate"

\* check_anomalies returns, to the gateway (lines 74-99) or to a direct
\* caller.
AnomalyReturns(p, anomalous) ==
    IF kind[p] = "pipeline" /\ AfterAnomaly(anomalous) # "idle"
    THEN /\ pc' = [pc EXCEPT ![p] = AfterAnomaly(anomalous)]
         /\ trace' = [trace EXCEPT ![p] = Append(@, IF anomalous THEN "anomaly_blocked" ELSE "anomaly_ok")]
         /\ DropLocals(p)
         /\ UNCHANGED <<kind, sess, cost, snap, upstream, inbound>>
    ELSE AReturn(p)

\* The process moves to label l of check_anomalies, locals as given.
Goto(p, l) ==
    /\ pc' = [pc EXCEPT ![p] = l]
    /\ UNCHANGED <<kind, sess, cost, req>>

\* No warm-up traffic is pending or running.
Free == warm = 0 /\ \A q \in Procs : kind[q] # "warm"

\* A request enters check_anomalies(s, m, msgs, mt, c).  The processes are
\* interchangeable: the second one is used only while the first is busy.
StartAnomaly(p, s, m, msgs, mt, c) ==
    /\ Idle(p)
    /\ p = "p2" => ~Idle("p1")
    /\ Free
    /\ quota > 0
    /\ quota' = quota - 1
    /\ pc' = [pc EXCEPT ![p] = "an_frozen"]
    /\ kind' = [kind EXCEPT ![p] = "anomaly"]
    /\ sess' = [sess EXCEPT ![p] = s]
    /\ cost' = [cost EXCEPT ![p] = c]
    /\ req' = [req EXCEPT ![p] = [model |-> m, messages |-> msgs, max_tokens |-> mt]]
    /\ last' = NoLast
    /\ startFrozen' = [startFrozen EXCEPT ![p] = FrozenWithReason(s)]
    /\ markAtStart' = [markAtStart EXCEPT ![p] = adminMark[s]]
    /\ adminMark' = [adminMark EXCEPT ![s] = IF @ = "unfrozen" THEN "none" ELSE @]
    /\ UNCHANGED <<ledgerFrame, anomStore, cnt, ident, reason, vnow, life, lifetime, passedRate, warm, created, cleaned, streak, lookup>>

\* Warm-up traffic: one client sends its requests one after the other within
\* the same second, never repeating the previous request.
StartWarm(p, s, m, msgs, mt, c) ==
    /\ p = "p1"
    /\ \A q \in Procs : Idle(q)
    /\ warm > 0
    /\ request_hash([model |-> m, messages |-> msgs, max_tokens |-> mt]) # last_request_hash[s].v
    /\ warm' = warm - 1
    /\ pc' = [pc EXCEPT ![p] = "an_frozen"]
    /\ kind' = [kind EXCEPT ![p] = "warm"]
    /\ sess' = [sess EXCEPT ![p] = s]
    /\ cost' = [cost EXCEPT ![p] = c]
    /\ req' = [req EXCEPT ![p] = [model |-> m, messages |-> msgs, max_tokens |-> mt]]
    /\ last' = NoLast
    /\ startFrozen' = [startFrozen EXCEPT ![p] = FrozenWithReason(s)]
    /\ markAtStart' = [markAtStart EXCEPT ![p] = adminMark[s]]
    /\ adminMark' = [adminMark EXCEPT ![s] = IF @ = "unfrozen" THEN "none" ELSE @]
    /\ UNCHANGED <<ledgerFrame, anomStore, cnt, ident, reason, vnow, life, lifetime, passedRate, quota, created, cleaned, streak, lookup>>

\* Mutant: a freeze is taken as over one minute after it was written.
FreezeInForceOneMinute(fu) == fu # None /\ now + (freeze_duration_seconds - 60) < fu

\* is_session_frozen lines 53-55: a frozen_until was read and the clock has
\* not reached it.
FreezeInForce(fu) == fu # None /\ now < fu

\* Where a call goes on once is_session_frozen has found the session not
\* frozen (line 62): check_anomalies counts the request, get_session_stats
\* reads the counters, a direct call returns.
NotFrozenLabel(k) ==
    IF k = "is_frozen" THEN "sf_false" ELSE IF k = "stats" THEN "st_count" ELSE "an_incr"

\* The mutation: a request that meets a freeze in force extends it.
AnFrozenExtending(p) ==
    /\ pc[p] = "an_frozen"
    /\ LET fu == frozen_until[sess[p]].v
       IN  /\ Goto(p, IF FreezeInForce(fu) THEN "an_reason"
                      ELSE IF fu # None THEN "an_unf_until"
                      ELSE NotFrozenLabel(kind[p]))
           /\ frozen_until' = [frozen_until EXCEPT ![sess[p]] = IF FreezeInForce(fu) THEN [v |-> now + freeze_duration_seconds, exp |-> now + freeze_duration_seconds] ELSE @]
    /\ UNCHANGED <<ledgerFrame, last, now, request_count, last_request_hash, identical_count, spend_velocity, request_history, freeze_reason, cnt, ident, reason, vnow, life, anomGhost, obsVars, lookup>>

\* is_session_frozen lines 51-55: GET frozen_until and compare with the clock.
AnFrozen(p) ==
    /\ pc[p] = "an_frozen"
    /\ LET fu == frozen_until[sess[p]].v
       IN  Goto(p, IF FreezeInForce(fu) THEN "an_reason"
                   ELSE IF fu # None THEN "an_unf_until"
                   ELSE NotFrozenLabel(kind[p]))
    /\ UNCHANGED <<ledgerFrame, last, anomStore, cnt, ident, reason, vnow, life, anomGhost, obsVars, lookup>>

\* is_session_frozen lines 56-57: GET freeze_reason and return frozen.
\* check_anomalies (lines 82-83) then returns anomalous with "Session
\* frozen: <reason>", a direct call returns (True, reason), and
\* get_session_stats (line 190) goes on to read the counters.
AnReason(p) ==
    /\ pc[p] = "an_reason"
    /\ LET r == freeze_reason[sess[p]].v
       IN  IF kind[p] = "stats"
           THEN /\ reason' = [reason EXCEPT ![p] = <<"frozen", r>>]
                /\ Goto(p, "st_count")
                /\ UNCHANGED <<last, cnt, ident, vnow, life, startFrozen, cleaned, markAtStart, trace, snap, upstream, inbound>>
           ELSE /\ last' = Answered(p, [DoneAnomaly(sess[p], 0, TRUE, "frozen") EXCEPT !.op = IF kind[p] = "is_frozen" THEN "is_session_frozen" ELSE "check_anomalies", !.info = CallInfo(p, r)],
                                    Response(p, AnomalyRejection.status, AnomalyRejection.type, AnomalyRejection.decision, None, "anomaly_blocked"))
                /\ IF kind[p] = "is_frozen" THEN AReturn(p) ELSE AnomalyReturns(p, TRUE)
    /\ UNCHANGED <<ledgerKeep, anomStore, anomGhost, created, streak, adminMark, lookup>>

\* Mutant: the lazy cleanup leaves the expired frozen_until in place.
AnUnfreezeUntilSkipped(p) ==
    /\ pc[p] = "an_unf_until"
    /\ Goto(p, "an_unf_reason")
    /\ UNCHANGED <<ledgerFrame, last, anomStore, cnt, ident, reason, vnow, life, anomGhost, obsVars, lookup>>

\* _unfreeze_session line 167, called from is_session_frozen: DEL frozen_until.
AnUnfreezeUntil(p) ==
    /\ pc[p] = "an_unf_until"
    /\ frozen_until' = [frozen_until EXCEPT ![sess[p]] = AbsentInt]
    /\ Goto(p, "an_unf_reason")
    /\ UNCHANGED <<ledgerFrame, last, now, request_count, last_request_hash, identical_count, spend_velocity, request_history, freeze_reason, cnt, ident, reason, vnow, life, anomGhost, obsVars, lookup>>

\* _unfreeze_session line 168: DEL freeze_reason; the session is not frozen.
AnUnfreezeReason(p) ==
    /\ pc[p] = "an_unf_reason"
    /\ freeze_reason' = [freeze_reason EXCEPT ![sess[p]] = AbsentText]
    /\ cleaned' = [cleaned EXCEPT ![p] = TRUE]
    /\ Goto(p, NotFrozenLabel(kind[p]))
    /\ UNCHANGED <<ledgerFrame, last, now, request_count, last_request_hash, identical_count, spend_velocity, request_history, frozen_until, cnt, ident, reason, vnow, life, anomGhost, startFrozen, created, streak, adminMark, markAtStart, lookup>>

\* A caller invokes is_session_frozen(s) (k = "is_frozen") or
\* get_session_stats(s) (k = "stats"), which starts with is_session_frozen.
StartStatus(p, s, k) ==
    /\ Idle(p)
    /\ Free
    /\ k \in {"is_frozen", "stats"}
    /\ pc' = [pc EXCEPT ![p] = "an_frozen"]
    /\ kind' = [kind EXCEPT ![p] = k]
    /\ sess' = [sess EXCEPT ![p] = s]
    /\ last' = NoLast
    /\ startFrozen' = [startFrozen EXCEPT ![p] = FrozenWithReason(s)]
    /\ markAtStart' = [markAtStart EXCEPT ![p] = adminMark[s]]
    /\ UNCHANGED <<ledgerFrame, cost, anomStore, anomLocals, anomGhost, created, cleaned, streak, adminMark, lookup>>

\* is_session_frozen line 62, called directly: return (False, None).
IsFrozenReturnFalse(p) ==
    /\ pc[p] = "sf_false"
    /\ last' = [Done("is_session_frozen", sess[p], 0, FALSE, 0) EXCEPT !.info = CallInfo(p, <<>>)]
    /\ AReturn(p)
    /\ UNCHANGED <<ledgerKeep, anomStore, anomGhost, created, streak, adminMark, lookup>>

\* get_session_stats line 191: GET request_count, 0 when absent.
StatsCount(p) ==
    /\ pc[p] = "st_count"
    /\ cnt' = [cnt EXCEPT ![p] = IF request_count[sess[p]] = AbsentInt THEN 0 ELSE request_count[sess[p]].v]
    /\ Goto(p, "st_ident")
    /\ UNCHANGED <<ledgerFrame, last, anomStore, ident, reason, vnow, life, anomGhost, obsVars, lookup>>

\* get_session_stats line 192: GET identical_count, 0 when absent.
StatsIdent(p) ==
    /\ pc[p] = "st_ident"
    /\ ident' = [ident EXCEPT ![p] = IF identical_count[sess[p]] = AbsentInt THEN 0 ELSE identical_count[sess[p]].v]
    /\ Goto(p, "st_velocity")
    /\ UNCHANGED <<ledgerFrame, last, anomStore, cnt, reason, vnow, life, anomGhost, obsVars, lookup>>

\* get_session_stats lines 195-207: ZRANGE velocity, sum the scores, return
\* the statistics: ok is is_frozen, arg requests_last_minute, val the
\* spending velocity.
StatsVelocity(p) ==
    /\ pc[p] = "st_velocity"
    /\ last' = [Done("get_session_stats", sess[p], cnt[p], reason[p] # <<>>, SumScores(spend_velocity[sess[p]].v)) EXCEPT !.info = CallInfo(p, IF reason[p] = <<>> THEN <<>> ELSE reason[p][2])]
    /\ AReturn(p)
    /\ UNCHANGED <<ledgerKeep, anomStore, anomGhost, created, streak, adminMark, lookup>>

\* check_anomalies line 86: INCR request_count.  An absent key is created at
\* 1 without expiry, which starts a new lifetime of the counter.
AnIncr(p) ==
    /\ pc[p] = "an_incr"
    /\ LET s == sess[p]
           old == request_count[s]
           n == IF old = AbsentInt THEN 1 ELSE old.v + 1
       IN  /\ request_count' = [request_count EXCEPT ![s] = [v |-> n, exp |-> old.exp]]
           /\ cnt' = [cnt EXCEPT ![p] = n]
           /\ lifetime' = [lifetime EXCEPT ![s] = IF old = AbsentInt THEN @ + 1 ELSE @]
           /\ passedRate' = [passedRate EXCEPT ![s] = IF old = AbsentInt THEN 0 ELSE @]
           /\ life' = [life EXCEPT ![p] = lifetime'[s]]
           /\ created' = [created EXCEPT ![s] = IF old = AbsentInt THEN now ELSE @]
    /\ Goto(p, "an_expire")
    /\ UNCHANGED <<ledgerFrame, last, now, last_request_hash, identical_count, spend_velocity, request_history, frozen_until, freeze_reason, ident, reason, vnow, warm, quota, startFrozen, cleaned, streak, adminMark, markAtStart, lookup>>

\* check_anomalies lines 87-94: EXPIRE request_count 60, then the rate check
\* on the count read: past the ceiling the session is to be frozen.
AnExpire(p) ==
    /\ pc[p] = "an_expire"
    /\ LET s == sess[p]
       IN  /\ request_count' = [request_count EXCEPT ![s] = Expire(@, AbsentInt, request_count_ttl)]
           /\ IF RateExceeded(cnt[p])
              THEN /\ reason' = [reason EXCEPT ![p] = <<"rate", cnt[p]>>]
                   /\ Goto(p, "fz_until")
                   /\ UNCHANGED passedRate
              ELSE /\ Goto(p, "an_get_hash")
                   /\ passedRate' = [passedRate EXCEPT ![s] = IF life[p] = lifetime[s] /\ request_count[s] # AbsentInt THEN @ + 1 ELSE @]
                   /\ UNCHANGED reason
    /\ UNCHANGED <<ledgerFrame, last, now, last_request_hash, identical_count, spend_velocity, request_history, frozen_until, freeze_reason, cnt, ident, vnow, life, lifetime, warm, quota, obsVars, lookup>>

\* _freeze_session lines 151-157: SETEX frozen_until with the time the
\* freeze ends at.
FreezeUntil(p) ==
    /\ pc[p] = "fz_until"
    /\ frozen_until' = [frozen_until EXCEPT ![sess[p]] = [v |-> now + freeze_duration_seconds, exp |-> now + freeze_duration_seconds]]
    /\ Goto(p, "fz_reason")
    /\ UNCHANGED <<ledgerFrame, last, now, request_count, last_request_hash, identical_count, spend_velocity, request_history, freeze_reason, cnt, ident, reason, vnow, life, anomGhost, obsVars, lookup>>

\* _freeze_session lines 158-162: SETEX freeze_reason; check_anomalies then
\* returns anomalous with the reason of the check that fired.
FreezeReason(p) ==
    /\ pc[p] = "fz_reason"
    /\ freeze_reason' = [freeze_reason EXCEPT ![sess[p]] = [v |-> reason[p], exp |-> now + freeze_duration_seconds]]
    /\ last' = Answered(p, [DoneAnomaly(sess[p], cnt[p], TRUE, reason[p][1]) EXCEPT !.info = CallInfo(p, <<>>)],
                        Response(p, AnomalyRejection.status, AnomalyRejection.type, AnomalyRejection.decision, None, "anomaly_blocked"))
    /\ AnomalyReturns(p, TRUE)
    /\ UNCHANGED <<ledgerKeep, now, request_count, last_request_hash, identical_count, spend_velocity, request_history, frozen_until, anomGhost, created, streak, adminMark, lookup>>

\* check_anomalies lines 97-100: GET last_request_hash, compare with the
\* digest of this request.
AnGetHash(p) ==
    /\ pc[p] = "an_get_hash"
    /\ Goto(p, IF last_request_hash[sess[p]].v = request_hash(req[p]) THEN "an_incr_ident" ELSE "an_del_ident")
    /\ streak' = [streak EXCEPT ![sess[p]] = Streak(@, request_hash(req[p]), last_request_hash[sess[p]].v)]
    /\ UNCHANGED <<ledgerFrame, last, anomStore, cnt, ident, reason, vnow, life, anomGhost, startFrozen, created, cleaned, adminMark, markAtStart, lookup>>

\* check_anomalies line 101: INCR identical_count.
AnIncrIdent(p) ==
    /\ pc[p] = "an_incr_ident"
    /\ LET s == sess[p]
           old == identical_count[s]
           n == IF old = AbsentInt THEN 1 ELSE old.v + 1
       IN  /\ identical_count' = [identical_count EXCEPT ![s] = [v |-> n, exp |-> old.exp]]
           /\ ident' = [ident EXCEPT ![p] = n]
    /\ Goto(p, "an_expire_ident")
    /\ UNCHANGED <<ledgerFrame, last, now, request_count, last_request_hash, spend_velocity, request_history, frozen_until, freeze_reason, cnt, reason, vnow, life, anomGhost, obsVars, lookup>>

\* check_anomalies lines 102-109: EXPIRE identical_count 300, then the loop
\* check on the count read.
AnExpireIdent(p) ==
    /\ pc[p] = "an_expire_ident"
    /\ identical_count' = [identical_count EXCEPT ![sess[p]] = Expire(@, AbsentInt, identical_count_ttl)]
    /\ IF LoopDetected(ident[p])
       THEN /\ reason' = [reason EXCEPT ![p] = <<"loop", ident[p]>>]
            /\ Goto(p, "fz_until")
       ELSE /\ Goto(p, "an_set_hash")
            /\ UNCHANGED reason
    /\ UNCHANGED <<ledgerFrame, last, now, request_count, last_request_hash, spend_velocity, request_history, frozen_until, freeze_reason, cnt, ident, vnow, life, anomGhost, obsVars, lookup>>

\* Mutant: a differing request leaves the streak counter as it is.
AnDelIdentSkipped(p) ==
    /\ pc[p] = "an_del_ident"
    /\ Goto(p, "an_set_hash")
    /\ UNCHANGED <<ledgerFrame, last, anomStore, cnt, ident, reason, vnow, life, anomGhost, obsVars, lookup>>

\* check_anomalies line 112: DEL identical_count.
AnDelIdent(p) ==
    /\ pc[p] = "an_del_ident"
    /\ identical_count' = [identical_count EXCEPT ![sess[p]] = AbsentInt]
    /\ Goto(p, "an_set_hash")
    /\ UNCHANGED <<ledgerFrame, last, now, request_count, last_request_hash, spend_velocity, request_history, frozen_until, freeze_reason, cnt, ident, reason, vnow, life, anomGhost, obsVars, lookup>>

\* check_anomalies line 115: SETEX last_request_hash 300.
AnSetHash(p) ==
    /\ pc[p] = "an_set_hash"
    /\ last_request_hash' = [last_request_hash EXCEPT ![sess[p]] = [v |-> request_hash(req[p]), exp |-> now + last_hash_ttl]]
    /\ Goto(p, "an_zadd")
    /\ UNCHANGED <<ledgerFrame, last, now, request_count, identical_count, spend_velocity, request_history, frozen_until, freeze_reason, cnt, ident, reason, vnow, life, anomGhost, obsVars, lookup>>

\* check_anomalies lines 118-123: read the clock, ZADD velocity with the
\* timestamp as the member and the cost as the score.  Timestamps have
\* microsecond resolution: two requests never share a member.
AnZadd(p) ==
    /\ pc[p] = "an_zadd"
    /\ vnow' = [vnow EXCEPT ![p] = now]
    /\ spend_velocity' = [spend_velocity EXCEPT ![sess[p]] = [v |-> Append(@.v, [member |-> now, score |-> cost[p]]), exp |-> @.exp]]
    /\ Goto(p, "an_zrem")
    /\ UNCHANGED <<ledgerFrame, last, now, request_count, last_request_hash, identical_count, request_history, frozen_until, freeze_reason, cnt, ident, reason, life, anomGhost, obsVars, lookup>>

\* check_anomalies lines 126-127: ZREMRANGEBYSCORE velocity 0 one_minute_ago.
\* The store deletes a sorted set that becomes empty.
AnZrem(p) ==
    /\ pc[p] = "an_zrem"
    /\ LET left == RemoveByScore(spend_velocity[sess[p]].v, 0, vnow[p] - velocity_window)
       IN  spend_velocity' = [spend_velocity EXCEPT ![sess[p]] = IF left = <<>> THEN AbsentText ELSE [v |-> left, exp |-> @.exp]]
    /\ Goto(p, "an_zrange")
    /\ UNCHANGED <<ledgerFrame, last, now, request_count, last_request_hash, identical_count, request_history, frozen_until, freeze_reason, cnt, ident, reason, vnow, life, anomGhost, obsVars, lookup>>

\* check_anomalies lines 130-138: ZRANGE velocity, sum the scores, then the
\* velocity check.
AnZrange(p) ==
    /\ pc[p] = "an_zrange"
    /\ LET total == SumScores(spend_velocity[sess[p]].v)
       IN  IF VelocityExceeded(total)
           THEN /\ reason' = [reason EXCEPT ![p] = <<"velocity", total>>]
                /\ Goto(p, "fz_until")
           ELSE /\ Goto(p, "an_vexpire")
                /\ UNCHANGED reason
    /\ UNCHANGED <<ledgerFrame, last, anomStore, cnt, ident, vnow, life, anomGhost, obsVars, lookup>>

\* check_anomalies line 141: EXPIRE velocity 120.
AnVelocityExpire(p) ==
    /\ pc[p] = "an_vexpire"
    /\ spend_velocity' = [spend_velocity EXCEPT ![sess[p]] = Expire(@, AbsentText, velocity_ttl)]
    /\ Goto(p, "an_lpush")
    /\ UNCHANGED <<ledgerFrame, last, now, request_count, last_request_hash, identical_count, request_history, frozen_until, freeze_reason, cnt, ident, reason, vnow, life, anomGhost, obsVars, lookup>>

\* _log_request lines 173-182: LPUSH the entry at the head of the history.
AnLpush(p) ==
    /\ pc[p] = "an_lpush"
    /\ request_history' = [request_history EXCEPT ![sess[p]] = [v |-> <<[timestamp |-> now, model |-> req[p].model, cost |-> cost[p]]>> \o @.v, exp |-> @.exp]]
    /\ Goto(p, "an_ltrim")
    /\ UNCHANGED <<ledgerFrame, last, now, request_count, last_request_hash, identical_count, spend_velocity, frozen_until, freeze_reason, cnt, ident, reason, vnow, life, anomGhost, obsVars, lookup>>

\* The mutation: the history is never trimmed.
AnLtrimSkipped(p) ==
    /\ pc[p] = "an_ltrim"
    /\ Goto(p, "an_hexpire")
    /\ UNCHANGED <<ledgerFrame, last, anomStore, cnt, ident, reason, vnow, life, anomGhost, obsVars, lookup>>

\* _log_request line 183: LTRIM history 0 99.
AnLtrim(p) ==
    /\ pc[p] = "an_ltrim"
    /\ LET h == request_history[sess[p]]
       IN  request_history' = [request_history EXCEPT ![sess[p]] = IF Len(h.v) > history_keep THEN [v |-> SubSeq(h.v, 1, history_keep), exp |-> h.exp] ELSE h]
    /\ Goto(p, "an_hexpire")
    /\ UNCHANGED <<ledgerFrame, last, now, request_count, last_request_hash, identical_count, spend_velocity, frozen_until, freeze_reason, cnt, ident, reason, vnow, life, anomGhost, obsVars, lookup>>

\* _log_request line 184 and check_anomalies line 146: EXPIRE history 3600,
\* return not anomalous.
AnHistoryExpire(p) ==
    /\ pc[p] = "an_hexpire"
    /\ request_history' = [request_history EXCEPT ![sess[p]] = Expire(@, AbsentText, history_ttl)]
    /\ last' = [DoneAnomaly(sess[p], cnt[p], FALSE, "") EXCEPT !.info = CallInfo(p, <<>>)]
    /\ AnomalyReturns(p, FALSE)
    /\ UNCHANGED <<ledgerKeep, now, request_count, last_request_hash, identical_count, spend_velocity, frozen_until, freeze_reason, anomGhost, created, streak, adminMark, lookup>>

\* ------------------------------------------------- administrative freezing
\* The frame of a command that writes only the freeze keys.
freezeFrame == <<ledgerFrame, cost, now, request_count, last_request_hash, identical_count, spend_velocity, request_history, anomLocals, anomGhost, startFrozen, created, cleaned, streak, markAtStart, lookup>>

\* An administrative call moves to its second command, or starts with s.
AdminGoto(p, s, k, l) ==
    /\ pc' = [pc EXCEPT ![p] = l]
    /\ kind' = [kind EXCEPT ![p] = k]
    /\ sess' = [sess EXCEPT ![p] = s]

\* An administrative call returns.
AdminReturn(p) ==
    /\ pc' = [pc EXCEPT ![p] = "idle"]
    /\ kind' = [kind EXCEPT ![p] = "none"]
    /\ sess' = [sess EXCEPT ![p] = "s1"]

\* TokenGateCLI.freeze_session lines 73-77: SETEX frozen_until 3600 with
\* the current time as its value.
CliFreezeUntil(p, s) ==
    /\ Idle(p)
    /\ Free
    /\ frozen_until' = [frozen_until EXCEPT ![s] = [v |-> now, exp |-> now + cli_freeze_ttl]]
    /\ AdminGoto(p, s, "cli_freeze", "cli_fz_reason")
    /\ last' = NoLast
    /\ adminMark' = [adminMark EXCEPT ![s] = IF FreezeKeysAbsent(s) THEN "freezing" ELSE "none"]
    /\ UNCHANGED <<freeze_reason, freezeFrame>>

\* TokenGateCLI.freeze_session lines 78-83: SETEX freeze_reason 3600 with
\* the reason ("Manual freeze" by default), return True.
CliFreezeReason(p) ==
    /\ pc[p] = "cli_fz_reason"
    /\ freeze_reason' = [freeze_reason EXCEPT ![sess[p]] = [v |-> <<"manual", 0>>, exp |-> now + cli_freeze_ttl]]
    /\ last' = Done("cli_freeze_session", sess[p], 0, TRUE, 0)
    /\ AdminReturn(p)
    /\ adminMark' = [adminMark EXCEPT ![sess[p]] = IF @ = "freezing" THEN "frozen" ELSE @]
    /\ UNCHANGED <<frozen_until, freezeFrame>>

\* An explicit unfreeze finds the session frozen by the rate limit or by loop
\* detection.
Thawing(s) == FrozenWithReason(s) /\ freeze_reason[s].v[1] \in {"rate", "loop"}

\* The mutation: the unfreeze also clears the session's request counter.
CliUnfreezeUntilClearing(p, s) ==
    /\ Idle(p)
    /\ Free
    /\ frozen_until' = [frozen_until EXCEPT ![s] = AbsentInt]
    /\ request_count' = [request_count EXCEPT ![s] = AbsentInt]
    /\ AdminGoto(p, s, "cli_unfreeze", "cli_unf_reason")
    /\ last' = NoLast
    /\ adminMark' = [adminMark EXCEPT ![s] = IF Thawing(s) THEN "unfrozen" ELSE "none"]
    /\ UNCHANGED <<freeze_reason, ledgerFrame, cost, now, last_request_hash, identical_count, spend_velocity, request_history, anomLocals, anomGhost, startFrozen, created, cleaned, streak, markAtStart, lookup>>

\* TokenGateCLI.unfreeze_session line 91: DEL frozen_until.
CliUnfreezeUntil(p, s) ==
    /\ Idle(p)
    /\ Free
    /\ frozen_until' = [frozen_until EXCEPT ![s] = AbsentInt]
    /\ AdminGoto(p, s, "cli_unfreeze", "cli_unf_reason")
    /\ last' = NoLast
    /\ adminMark' = [adminMark EXCEPT ![s] = IF Thawing(s) THEN "unfrozen" ELSE "none"]
    /\ UNCHANGED <<freeze_reason, freezeFrame>>

\* TokenGateCLI.unfreeze_session lines 92-93: DEL freeze_reason, return True.
CliUnfreezeReason(p) ==
    /\ pc[p] = "cli_unf_reason"
    /\ freeze_reason' = [freeze_reason EXCEPT ![sess[p]] = AbsentText]
    /\ last' = Done("unfreeze_session", sess[p], 0, TRUE, 0)
    /\ AdminReturn(p)
    /\ UNCHANGED <<frozen_until, freezeFrame, adminMark>>

\* The dashboard's unfreeze route, first turn of its loop (line 122): DEL
\* frozen_until.
DashUnfreezeUntil(p, s) ==
    /\ Idle(p)
    /\ Free
    /\ frozen_until' = [frozen_until EXCEPT ![s] = AbsentInt]
    /\ AdminGoto(p, s, "dash_unfreeze", "dash_unf_reason")
    /\ last' = NoLast
    /\ adminMark' = [adminMark EXCEPT ![s] = IF Thawing(s) THEN "unfrozen" ELSE "none"]
    /\ UNCHANGED <<freeze_reason, freezeFrame>>

\* The dashboard's unfreeze route, second turn of its loop and the answer
\* (lines 122-124): DEL freeze_reason.
DashUnfreezeReason(p) ==
    /\ pc[p] = "dash_unf_reason"
    /\ freeze_reason' = [freeze_reason EXCEPT ![sess[p]] = AbsentText]
    /\ last' = Done("unfreeze_session", sess[p], 0, TRUE, 0)
    /\ AdminReturn(p)
    /\ UNCHANGED <<frozen_until, freezeFrame, adminMark>>


\* Time passes: the clock advances by d seconds and the store drops the keys
\* that expired.
Advance(d) ==
    /\ Free
    /\ now' = now + d
    /\ request_count' = [s \in Sessions |-> Purge(request_count[s], AbsentInt, now')]
    /\ last_request_hash' = [s \in Sessions |-> Purge(last_request_hash[s], AbsentText, now')]
    /\ identical_count' = [s \in Sessions |-> Purge(identical_count[s], AbsentInt, now')]
    /\ spend_velocity' = [s \in Sessions |-> Purge(spend_velocity[s], AbsentText, now')]
    /\ request_history' = [s \in Sessions |-> Purge(request_history[s], AbsentText, now')]
    /\ frozen_until' = [s \in Sessions |-> Purge(frozen_until[s], AbsentInt, now')]
    /\ freeze_reason' = [s \in Sessions |-> Purge(freeze_reason[s], AbsentText, now')]
    /\ last' = NoLast
    /\ adminMark' = [s \in Sessions |-> IF adminMark[s] = "frozen" /\ now' < EpochStart + cli_freeze_ttl THEN "frozen" ELSE "none"]
    /\ UNCHANGED <<budget, spent, procVars, charged, explicitSet, touched, everSet, everDeducted, anomLocals, anomGhost, startFrozen, created, cleaned, streak, markAtStart, trace, snap, upstream, inbound, lookup>>

\* One tick of the clock, at most MaxTicks of them in a run.
Tick ==
    /\ now < EpochStart + MaxTicks * TickSeconds
    /\ Advance(TickSeconds)

\* The steps of one check_anomalies call.
AnomalyStep(p) ==
    \/ AnFrozen(p)
    \/ AnReason(p)
    \/ AnIncr(p)
    \/ AnExpire(p)
    \/ FreezeUntil(p)
    \/ FreezeReason(p)
    \/ AnGetHash(p)
    \/ AnIncrIdent(p)
    \/ AnExpireIdent(p)
    \/ AnDelIdent(p)
    \/ AnSetHash(p)
    \/ AnZadd(p)
    \/ AnZrem(p)
    \/ AnZrange(p)
    \/ AnVelocityExpire(p)
    \/ AnLpush(p)
    \/ AnLtrim(p)
    \/ AnHistoryExpire(p)

\* Concurrent requests of one session going through check_anomalies, as the
\* gateway calls it (estimated cost 0), while time passes.  A client first
\* sends a burst that takes the request counter next to the ceiling; then
\* MaxRequests requests arrive in any interleaving.
WarmRequests == max_requests_per_minute - 1

InitRate ==
    /\ AnomalyInit
    /\ lookup = NoLookup
    /\ warm = WarmRequests
    /\ quota = MaxRequests
    /\ budget = [s \in Sessions |-> None]
    /\ spent = [s \in Sessions |-> None]
    /\ pc = [p \in Procs |-> "idle"]
    /\ kind = [p \in Procs |-> "none"]
    /\ sess = [p \in Procs |-> "s1"]
    /\ cost = [p \in Procs |-> 0]
    /\ rbudget = [p \in Procs |-> None]
    /\ rspent = [p \in Procs |-> None]
    /\ last = NoLast
    /\ charged = [s \in Sessions |-> 0]
    /\ explicitSet = [s \in Sessions |-> FALSE]
    /\ touched = [s \in Sessions |-> FALSE]
    /\ everSet = [s \in Sessions |-> FALSE]
    /\ everDeducted = [s \in Sessions |-> FALSE]

NextRate ==
    \/ \E p \in Procs, m \in Models, msgs \in Messages : StartAnomaly(p, "s1", m, msgs, None, 0)
    \/ \E p \in Procs, m \in Models, msgs \in Messages : StartWarm(p, "s1", m, msgs, None, 0)
    \/ \E p \in Procs : AnomalyStep(p)
    \/ Tick

SpecRate == InitRate /\ [][NextRate]_vars

\* The ledger with no key stored and no call running.
IdleLedger ==
    /\ budget = [s \in Sessions |-> None]
    /\ spent = [s \in Sessions |-> None]
    /\ pc = [p \in Procs |-> "idle"]
    /\ kind = [p \in Procs |-> "none"]
    /\ sess = [p \in Procs |-> "s1"]
    /\ cost = [p \in Procs |-> 0]
    /\ rbudget = [p \in Procs |-> None]
    /\ rspent = [p \in Procs |-> None]
    /\ last = NoLast
    /\ charged = [s \in Sessions |-> 0]
    /\ explicitSet = [s \in Sessions |-> FALSE]
    /\ touched = [s \in Sessions |-> FALSE]
    /\ everSet = [s \in Sessions |-> FALSE]
    /\ everDeducted = [s \in Sessions |-> FALSE]

\* A session frozen by the engine and the requests that follow.  A burst
\* fills the request counter to the ceiling, so the next request freezes the
\* session within the same second; further requests arrive while the clock
\* runs through the freeze duration, up to its last minute.  The two reads
\* of the frozen check are taken within one reading of the clock.
FreezeWaits == {TickSeconds, freeze_duration_seconds - TickSeconds}

FreezeHorizon == freeze_duration_seconds - TickSeconds

InFrozenCheck(p) == pc[p] \in {"an_frozen", "an_reason"}

Wait(d) ==
    /\ now + d <= EpochStart + FreezeHorizon
    /\ now > EpochStart \/ \E s \in Sessions : frozen_until[s] # AbsentInt
    /\ \A p \in Procs : ~InFrozenCheck(p)
    /\ Advance(d)

InitFreeze ==
    /\ AnomalyInit
    /\ lookup = NoLookup
    /\ IdleLedger
    /\ warm = max_requests_per_minute
    /\ quota = MaxRequests

NextFreeze ==
    \/ \E p \in Procs, m \in Models, msgs \in Messages : StartAnomaly(p, "s1", m, msgs, None, 0)
    \/ \E p \in Procs, m \in Models, msgs \in Messages : StartWarm(p, "s1", m, msgs, None, 0)
    \/ \E p \in Procs : AnomalyStep(p)
    \/ \E d \in FreezeWaits : Wait(d)

SpecFreeze == InitFreeze /\ [][NextFreeze]_vars

\* The steps of is_session_frozen and get_session_stats, with the lazy
\* cleanup that check_anomalies shares with them.
StatusStep(p) ==
    \/ AnUnfreezeUntil(p)
    \/ AnUnfreezeReason(p)
    \/ IsFrozenReturnFalse(p)
    \/ StatsCount(p)
    \/ StatsIdent(p)
    \/ StatsVelocity(p)

\* The administrative commands on the freeze keys.
AdminStep(p, S) ==
    \/ \E s \in S : CliFreezeUntil(p, s)
    \/ CliFreezeReason(p)
    \/ \E s \in S : CliUnfreezeUntil(p, s)
    \/ CliUnfreezeReason(p)
    \/ \E s \in S : DashUnfreezeUntil(p, s)
    \/ DashUnfreezeReason(p)

\* Requests, status reads and administrative commands of one session, one
\* call at a time, the clock advancing between calls up to one minute past
\* the freeze duration.  The run starts with the session idle or with a
\* burst that fills the request counter to the ceiling.
AdminHorizon == freeze_duration_seconds + TickSeconds

Alone(p) == \A q \in Procs \ {p} : Idle(q)

WaitIdle(d) ==
    /\ now + d <= EpochStart + AdminHorizon
    /\ \A p \in Procs : Idle(p)
    /\ Advance(d)

InitAdmin ==
    /\ AnomalyInit
    /\ lookup = NoLookup
    /\ IdleLedger
    /\ warm \in {0, max_requests_per_minute}
    /\ quota = MaxRequests

\* One call at a time needs one process.
SeqProcs == {"p1"}

NextAdminSeq ==
    \/ \E p \in SeqProcs, m \in Models, msgs \in Messages : Alone(p) /\ StartAnomaly(p, "s1", m, msgs, None, 0)
    \/ \E p \in SeqProcs, m \in Models, msgs \in Messages : StartWarm(p, "s1", m, msgs, None, 0)
    \/ \E p \in SeqProcs, k \in {"is_frozen", "stats"} : Alone(p) /\ StartStatus(p, "s1", k)
    \/ \E p \in SeqProcs : Alone(p) /\ AnomalyStep(p)
    \/ \E p \in SeqProcs : Alone(p) /\ StatusStep(p)
    \/ \E p \in SeqProcs : Alone(p) /\ AdminStep(p, {"s1"})
    \/ \E d \in FreezeWaits : WaitIdle(d)

SpecAdminSeq == InitAdmin /\ [][NextAdminSeq]_vars

\* Requests of one session, one at a time, arriving half a counter expiry
\* apart or closer.
WindowStep == request_count_ttl \div 2

WindowHorizon == request_count_ttl + WindowStep

WaitWindow(d) ==
    /\ now + d <= EpochStart + WindowHorizon
    /\ \A p \in Procs : Idle(p)
    /\ Advance(d)

NextWindow ==
    \/ \E p \in SeqProcs, m \in Models, msgs \in Messages : Alone(p) /\ StartAnomaly(p, "s1", m, msgs, None, 0)
    \/ \E p \in SeqProcs, m \in Models, msgs \in Messages : StartWarm(p, "s1", m, msgs, None, 0)
    \/ \E p \in SeqProcs : AnomalyStep(p)
    \/ WaitWindow(WindowStep)

SpecWindow == InitAdmin /\ [][NextWindow]_vars

\* Requests of one session sent one at a time within the same second from the
\* empty store: enough of them for a run of identical requests to trip the
\* loop check and for one more to meet the freeze, each with an estimated
\* cost of nothing or of more than the velocity threshold.
LoopRequests == max_identical_requests + 2

LoopCosts == {0, velocity_threshold + 1}

InitLoop ==
    /\ AnomalyInit
    /\ lookup = NoLookup
    /\ IdleLedger
    /\ warm = 0
    /\ quota = LoopRequests

NextLoop ==
    \/ \E p \in SeqProcs, m \in Models, msgs \in Messages, c \in LoopCosts : StartAnomaly(p, "s1", m, msgs, None, c)
    \/ \E p \in SeqProcs : AnomalyStep(p)

SpecLoop == InitLoop /\ [][NextLoop]_vars

\* A client's requests running concurrently with an operator's commands on
\* the same session: the operator freezes and unfreezes from the command
\* line, unfreezes from the dashboard and reads the status, each command of
\* a call taking effect on its own between the commands of the request.
\* The run starts with the session idle or with a burst that fills the
\* request counter to the ceiling.
RaceRequests == 2

Client == "p1"

Operator == "p2"

InitRace ==
    /\ AnomalyInit
    /\ lookup = NoLookup
    /\ IdleLedger
    /\ warm \in {0, max_requests_per_minute}
    /\ quota = RaceRequests

NextRace ==
    \/ \E m \in Models, msgs \in Messages : StartAnomaly(Client, "s1", m, msgs, None, 0)
    \/ \E m \in Models, msgs \in Messages : StartWarm(Client, "s1", m, msgs, None, 0)
    \/ \E k \in {"is_frozen", "stats"} : StartStatus(Operator, "s1", k)
    \/ \E p \in Procs : AnomalyStep(p)
    \/ StatusStep(Operator)
    \/ AdminStep(Operator, {"s1"})

SpecRace == InitRace /\ [][NextRace]_vars

\* ------------------------------------------------------------- the gateway
\* process_request lines 69-80: a request for session s enters the gateway,
\* which first calls check_anomalies with an estimated cost of 0.
StartPipeline(p, s, m, msgs, mt) ==
    /\ Idle(p)
    /\ p = "p2" => ~Idle("p1")
    /\ Free
    /\ quota > 0
    /\ quota' = quota - 1
    /\ pc' = [pc EXCEPT ![p] = "an_frozen"]
    /\ kind' = [kind EXCEPT ![p] = "pipeline"]
    /\ sess' = [sess EXCEPT ![p] = s]
    /\ cost' = [cost EXCEPT ![p] = 0]
    /\ req' = [req EXCEPT ![p] = [model |-> m, messages |-> msgs, max_tokens |-> mt]]
    /\ last' = NoLast
    /\ startFrozen' = [startFrozen EXCEPT ![p] = FrozenWithReason(s)]
    /\ markAtStart' = [markAtStart EXCEPT ![p] = adminMark[s]]
    /\ adminMark' = [adminMark EXCEPT ![s] = IF @ = "unfrozen" THEN "none" ELSE @]
    /\ trace' = [trace EXCEPT ![p] = <<"received">>]
    /\ snap' = [snap EXCEPT ![p] = [budget |-> budget[s], spent |-> spent[s]]]
    /\ UNCHANGED upstream
    /\ UNCHANGED <<ledgerKeep, anomStore, cnt, ident, reason, vnow, life, lifetime, passedRate, warm, created, cleaned, streak, lookup>>

\* process_request lines 101-122: the cost estimate e of the request, then
\* the call of check_budget with it.
Estimate(p, e) ==
    /\ pc[p] = "estimate"
    /\ cost' = [cost EXCEPT ![p] = e]
    /\ kind' = [kind EXCEPT ![p] = "request"]
    /\ pc' = [pc EXCEPT ![p] = "cb_get_budget"]
    /\ trace' = [trace EXCEPT ![p] = Append(@, "estimate")]
    /\ UNCHANGED <<ledgerKeep, sess, last, anomVars, snap, upstream, inbound, lookup>>

\* The steps of one gateway request, estimates drawn from C; the upstream
\* never bills more than the estimate.
PipelineStep(p, C) ==
    \/ AnomalyStep(p)
    \/ \E e \in C : Estimate(p, e)
    \/ CheckGetBudget(p)
    \/ CheckSetDefault(p)
    \/ CheckGetSpent(p)
    \/ \E st \in Statuses, u \in C \cup {None} : u <= cost[p] /\ Forward(p, st, u)
    \/ DeductRead(p)
    \/ DeductWrite(p)

\* Concurrent gateway requests of one session with no limit set, from the
\* empty store or after a burst that filled the request counter to the
\* ceiling.
PipeEstimates == {4}

NextPipeline ==
    \/ \E p \in Procs, m \in Models, msgs \in Messages : StartPipeline(p, "s1", m, msgs, None) /\ UNCHANGED inbound
    \/ \E p \in Procs, m \in Models, msgs \in Messages : StartWarm(p, "s1", m, msgs, None, 0)
    \/ \E p \in Procs : PipelineStep(p, PipeEstimates)

SpecPipeline == InitAdmin /\ [][NextPipeline]_vars

\* ------------------------------------------------------ gateway and faults
\* How the upstream call ends: with a response, or with one of the failures
\* forward_request catches.
Outcomes == {"response", "timeout", "request_error", "exception"}

\* OpenAIForwarder.forward_request lines 60-101: the status and the usage of
\* the body handed to process_request; a timeout is turned into 504, a
\* connection failure into 502, any other failure into 500, each with an
\* error body.
forward_request(o, st, u) ==
    IF o = "timeout" THEN [status |-> 504, usage |-> None]
    ELSE IF o = "request_error" THEN [status |-> 502, usage |-> None]
    ELSE IF o = "exception" THEN [status |-> 500, usage |-> None]
    ELSE [status |-> st, usage |-> u]

\* process_request lines 157-229 with the forwarder's outcome o.
Upstream(p, o, st, u) == Forward(p, forward_request(o, st, u).status, forward_request(o, st, u).usage)

\* The store fails during check_anomalies (lines 73-80 of process_request
\* have no try block and the application installs no exception handler):
\* the exception leaves process_request, nothing is logged and the caller
\* gets the framework's bare 500.
AnStoreFails(p) ==
    /\ kind[p] = "pipeline"
    /\ pc[p] \notin {"idle", "estimate"}
    /\ last' = Response(p, 500, "unhandled", "", None, "anomaly_failed")
    /\ AReturn(p)
    /\ UNCHANGED <<ledgerKeep, anomStore, anomGhost, created, streak, adminMark, lookup>>

\* Mutant: a failure of the store in check_budget is answered like a
\* request short of budget.
BudgetFailureAsQuota == [status |-> 429, type |-> "insufficient_quota", decision |-> "blocked"]

\* process_request lines 125-136: what a request is answered, and what is
\* logged, when check_budget raises.
BudgetFailure == [status |-> 503, type |-> "service_unavailable", decision |-> "error"]

\* The store fails during check_budget: RuntimeError (manager lines 144-146),
\* answered 503 service_unavailable with decision error (router lines
\* 125-136).
CheckStoreFails(p) ==
    /\ trace[p] # <<>>
    /\ pc[p] \in {"cb_get_budget", "cb_set_default", "cb_get_spent"}
    /\ last' = Response(p, BudgetFailure.status, BudgetFailure.type, BudgetFailure.decision, None, "budget_failed")
    /\ Return(p)
    /\ UNCHANGED <<storeVars, charged, explicitSet, touched, everSet, everDeducted, anomVars, lookup>>

\* The store fails during deduct_cost: RuntimeError (manager lines 197-198),
\* caught and logged (router lines 191-204); the upstream status and body
\* are returned.
DeductStoreFails(p) ==
    /\ trace[p] # <<>>
    /\ pc[p] \in {"dc_read", "dc_write"}
    /\ last' = Returned(p, upstream[p].status, upstream[p].usage, "deduct_failed")
    /\ Return(p)
    /\ UNCHANGED <<storeVars, charged, explicitSet, touched, everSet, everDeducted, anomVars, lookup>>

\* validate_chat_completion_request: the error message, "" when the body
\* is valid.  The body r was parsed as an object or as another JSON value;
\* its messages member is missing (""), not a list ("text"), an empty list
\* ("empty") or a list of messages.
validate_chat_completion_request(r) ==
    IF r.json # "object" THEN "Request body must be a JSON object"
    ELSE IF r.model = "" THEN "Missing required field: model"
    ELSE IF r.messages = "" THEN "Missing required field: messages"
    ELSE IF r.messages = "text" THEN "Field 'messages' must be an array"
    ELSE IF r.messages = "empty" THEN "Field 'messages' cannot be empty"
    ELSE ""

\* validate_embedding_request: the error message, "" when the body is valid.
validate_embedding_request(r) ==
    IF r.json # "object" THEN "Request body must be a JSON object"
    ELSE IF r.model = "" THEN "Missing required field: model"
    ELSE IF r.input = "" THEN "Missing required field: input"
    ELSE ""

\* The validator each endpoint hands to process_request (router lines
\* 232-247); the legacy completions endpoint hands none.
Validate(r) ==
    IF r.ep = "chat" THEN validate_chat_completion_request(r)
    ELSE IF r.ep = "embeddings" THEN validate_embedding_request(r)
    ELSE ""

\* extract_session_id: the header, else the query parameter; without
\* either, None ("") in strict mode and "default" otherwise.
extract_session_id(header, query, strict) ==
    LET id == IF header # "" THEN header ELSE query
    IN  IF strict /\ id = "" THEN "" ELSE IF id = "" THEN "default" ELSE id

\* Mutant: the body is not validated before the checks start.
ClientErrorUnvalidated(r) ==
    IF r.json = "invalid" THEN "Invalid JSON in request body"
    ELSE IF extract_session_id(r.header, r.query, r.strict) = "" THEN "session_id is required"
    ELSE ""

\* process_request lines 38-68: the message of the 400 invalid_request_error
\* the request is rejected with, "" when it is not rejected.
ClientError(r) ==
    IF r.json = "invalid" THEN "Invalid JSON in request body"
    ELSE IF Validate(r) # "" THEN Validate(r)
    ELSE IF extract_session_id(r.header, r.query, r.strict) = "" THEN "session_id is required"
    ELSE ""

\* The inbound requests of the run: a chat completion for s1, the same with
\* a body that is not JSON, not an object, without a model, with each bad
\* shape of messages, with the session id in the query, with no session id
\* in strict mode and outside it; an embedding with and without input; a
\* legacy completion whose body is an object or an array.
ChatRequest == [ep |-> "chat", json |-> "object", model |-> "gpt-4", messages |-> "a", input |-> "", header |-> "s1", query |-> "", strict |-> FALSE]

EmbeddingRequest == [ChatRequest EXCEPT !.ep = "embeddings", !.messages = "", !.input = "x"]

CompletionRequest == [ChatRequest EXCEPT !.ep = "completions", !.messages = ""]

InboundRequests ==
    {ChatRequest, EmbeddingRequest, CompletionRequest,
     [ChatRequest EXCEPT !.json = "invalid"], [ChatRequest EXCEPT !.json = "array"],
     [ChatRequest EXCEPT !.model = ""], [ChatRequest EXCEPT !.messages = ""],
     [ChatRequest EXCEPT !.messages = "text"], [ChatRequest EXCEPT !.messages = "empty"],
     [ChatRequest EXCEPT !.header = "", !.query = "s1", !.strict = TRUE],
     [ChatRequest EXCEPT !.header = "", !.strict = TRUE], [ChatRequest EXCEPT !.header = ""],
     [EmbeddingRequest EXCEPT !.input = ""], [CompletionRequest EXCEPT !.json = "array"]}

\* A response given before the request has a session.
Refused(st, et, r) ==
    [NoLast EXCEPT !.op = "process_request", !.arg = st, !.why = et, !.val = None, !.info.steps = <<"refused">>, !.info.request = r]

\* process_request lines 38-80: the inbound request r is parsed, validated
\* and given its session id; a client error is answered 400
\* invalid_request_error, a body that is no object and met no validator
\* raises at body.get (line 71), any other request enters check_anomalies.
\* Requests of sessions outside Sessions are not followed further.
Receive(p, r) ==
    IF ClientError(r) # ""
    THEN /\ Idle(p)
         /\ Free
         /\ last' = Refused(400, "invalid_request_error", r)
         /\ UNCHANGED <<storeVars, procVars, charged, explicitSet, touched, everSet, everDeducted, anomVars, trace, snap, upstream, inbound, lookup>>
    ELSE IF r.json # "object"
    THEN /\ Idle(p)
         /\ Free
         /\ last' = Refused(500, "unhandled", r)
         /\ UNCHANGED <<storeVars, procVars, charged, explicitSet, touched, everSet, everDeducted, anomVars, trace, snap, upstream, inbound, lookup>>
    ELSE /\ extract_session_id(r.header, r.query, r.strict) \in Sessions
         /\ StartPipeline(p, extract_session_id(r.header, r.query, r.strict),
                          IF r.model = "" THEN "unknown" ELSE r.model,
                          IF r.messages = "" THEN "none" ELSE r.messages, None)
         /\ inbound' = [inbound EXCEPT ![p] = r]

\* What the gateway requests of the run are estimated at, what the upstream
\* reports as usage and the limit an operator may set.
GatewayEstimates == {4, default_budget + 2}

GatewayUsages == {None, 0, 3, BadUsage, UnpricedUsage}

GatewayBudgets == {3}

\* Gateway requests of one session, one at a time, with every outcome of
\* the upstream call and store failures at any command.
NextGateway ==
    \/ \E p \in SeqProcs, a \in GatewayBudgets : Free /\ budget["s1"] = None /\ SetBudget(p, "s1", a)
    \/ \E p \in SeqProcs, r \in InboundRequests : Receive(p, r)
    \/ \E p \in SeqProcs, m \in Models, msgs \in Messages : StartWarm(p, "s1", m, msgs, None, 0)
    \/ \E p \in SeqProcs : AnomalyStep(p)
    \/ \E p \in SeqProcs, e \in GatewayEstimates : Estimate(p, e)
    \/ \E p \in SeqProcs : CheckGetBudget(p)
    \/ \E p \in SeqProcs : CheckSetDefault(p)
    \/ \E p \in SeqProcs : CheckGetSpent(p)
    \/ \E p \in SeqProcs, o \in Outcomes, st \in Statuses, u \in GatewayUsages : Upstream(p, o, st, u)
    \/ \E p \in SeqProcs : DeductRead(p)
    \/ \E p \in SeqProcs : DeductWrite(p)
    \/ \E p \in SeqProcs : AnStoreFails(p)
    \/ \E p \in SeqProcs : CheckStoreFails(p)
    \/ \E p \in SeqProcs : DeductStoreFails(p)

SpecGateway == InitAdmin /\ [][NextGateway]_vars

\* ------------------------------------------------------------ two sessions
\* Concurrent gateway requests of two sessions.  Session s1 is also given a
\* small limit, reset, and driven to the rate ceiling by a burst; session
\* s2 only sends requests.
SessionEstimates == {6}

InitSessions ==
    /\ AnomalyInit
    /\ lookup = NoLookup
    /\ IdleLedger
    /\ warm \in {0, max_requests_per_minute}
    /\ quota = RaceRequests

NextSessions ==
    \/ \E p \in Procs, s \in Sessions, m \in Models : StartPipeline(p, s, m, "a", None) /\ UNCHANGED inbound
    \/ \E p \in Procs, m \in Models, msgs \in Messages : StartWarm(p, "s1", m, msgs, None, 0)
    \/ \E p \in Procs, a \in GatewayBudgets : Free /\ budget["s1"] = None /\ SetBudget(p, "s1", a)
    \/ \E p \in Procs : Free /\ spent["s1"] # None /\ ResetSession(p, "s1")
    \/ \E p \in Procs : PipelineStep(p, SessionEstimates)

SpecSessions == InitSessions /\ [][NextSessions]_vars

\* ------------------------------------------------------------------ claims
AllIdle == \A p \in Procs : Idle(p)

Limit(s) == get_budget_info(s).budget

\* C1: a session is never charged past its budget: in every state reached by
\* admitted requests alone, the stored spent is at most the budget limit.
C1_NeverPastBudget == \A s \in Sessions : get_spent(s) <= Limit(s)

\* C2: a write that leaves the spent key in place never lowers the stored
\* spent, under any interleaving of deduct_cost calls.
C2_SpentNeverLowered == [][\A s \in Sessions : spent'[s] # None => get_spent(s)' >= get_spent(s)]_vars

\* C3: no deduction is lost: once every concurrent deduct_cost call has
\* completed, spent equals the sum of the costs deducted.
C3_NoLostDeduction == AllIdle => \A s \in Sessions : get_spent(s) = charged[s]

\* C4: under single-threaded access the stored spent is the spent at the last
\* reset (zero) plus the sum of all costs deducted since, in every state.
C4_SequentialDeductsAdd == \A s \in Sessions : spent[s] # None => spent[s] = charged[s]

C4_Witness == \E s \in Sessions : last.op = "deduct_cost" /\ last.sess = s /\ budget[s] = default_budget /\ charged[s] > default_budget /\ spent[s] = charged[s]

\* C5 as stated: check_budget returns true iff cost <= the remaining that
\* get_budget_info reports (clamped at zero).
C5_CheckIffRemaining == last.op = "check_budget" => (last.ok <=> last.arg <= get_budget_info(last.sess).remaining)

\* C5 amended: check_budget returns true iff cost <= limit - spent, the
\* difference that is not clamped at zero.
C5_CheckIffUnclamped == last.op = "check_budget" => (last.ok <=> last.arg <= Limit(last.sess) - get_spent(last.sess))

C5_Witness == last.op = "check_budget" /\ last.arg = 0 /\ ~last.ok /\ get_spent(last.sess) > Limit(last.sess)

\* C6 as stated: get_budget is absent iff set_budget was not called since the
\* last reset.
C6_AbsentIffNeverSet == AllIdle => \A s \in Sessions : (get_budget(s) = None <=> ~explicitSet[s])

\* C6 amended: get_budget is absent iff neither set_budget nor check_budget
\* nor deduct_cost was called since the last reset.
C6_AbsentIffUntouched == AllIdle => \A s \in Sessions : (get_budget(s) = None <=> ~touched[s])

C6_Witness == AllIdle /\ \E s \in Sessions : ~explicitSet[s] /\ touched[s] /\ get_budget(s) = default_budget

\* C7: a session set_budget was never called on, and nothing was deducted
\* from, reports the default limit, zero spent and the default remaining.
C7_DefaultInfo == \A s \in Sessions : (~everSet[s] /\ ~everDeducted[s]) => get_budget_info(s) = [budget |-> default_budget, spent |-> 0, remaining |-> default_budget]

C7_Witness == \E s \in Sessions : ~everSet[s] /\ ~everDeducted[s] /\ budget[s] # None

\* C8: right after reset_session returns, get_budget is absent and get_spent
\* is zero, whatever was stored before.
C8_ResetRoundTrip == last.op = "reset_session" => (get_budget(last.sess) = None /\ get_spent(last.sess) = 0)

C8_Witness == last.op = "reset_session" /\ last.arg # None /\ last.val > 0 /\ last.val # None

\* C9: no state is reachable in which a reset has deleted the budget key and
\* not yet the spent key.
C9_ResetPairAtomic == \A p \in Procs : kind[p] = "cli_reset" => spent[sess[p]] = None

\* The labels of check_anomalies that come after a passed rate check.
AfterRatePcs == {"an_get_hash", "an_incr_ident", "an_expire_ident", "an_del_ident", "an_set_hash", "an_zadd", "an_zrem", "an_zrange", "an_vexpire", "an_lpush", "an_ltrim", "an_hexpire"}

Freezing(p) == pc[p] \in {"fz_until", "fz_reason"}

PassedRate(p) == pc[p] \in AfterRatePcs \/ (Freezing(p) /\ reason[p][1] # "rate")

RejectedRate(p) == Freezing(p) /\ reason[p][1] = "rate"

\* C10: rate ceiling.  Under any interleaving of concurrent requests, a
\* request goes on past the rate check exactly when its post-increment count
\* is at most max_requests_per_minute, so at most that many requests pass
\* during one lifetime of the counter; a request whose count exceeds the
\* ceiling takes the freeze path with a rate-limit reason, and when it
\* returns it returns anomalous and the session is frozen with that reason.
C10_RateCeiling ==
    /\ \A p \in Procs : PassedRate(p) => cnt[p] <= max_requests_per_minute
    /\ \A p \in Procs : RejectedRate(p) => cnt[p] > max_requests_per_minute
    /\ \A s \in Sessions : passedRate[s] <= max_requests_per_minute
    /\ (last.op = "check_anomalies" /\ last.why # "frozen") =>
           (last.why = "rate" <=> last.arg > max_requests_per_minute)
    /\ (last.op = "check_anomalies" /\ last.why = "rate") =>
           /\ last.ok
           /\ IsFrozen(last.sess)
           /\ freeze_reason[last.sess].v = <<"rate", last.arg>>

\* The 101st request has returned rejected and frozen the session after 100
\* requests passed, while a concurrent request counted 102 is being rejected.
C10_Witness ==
    /\ last.op = "check_anomalies"
    /\ last.why = "rate"
    /\ last.arg = max_requests_per_minute + 1
    /\ passedRate[last.sess] = max_requests_per_minute
    /\ IsFrozen(last.sess)
    /\ \E p \in Procs : RejectedRate(p) /\ cnt[p] = max_requests_per_minute + 2

\* C11: a freeze lasts its duration.  A check_anomalies call that starts
\* while a freeze written by the engine is in force (from the time both
\* keys are stored until freeze_duration_seconds later) never gets past the
\* frozen check, and returns anomalous with the stored freeze reason,
\* whatever the request is and whether or not the request counter is still
\* alive.
C11_FrozenForDuration ==
    /\ \A p \in Procs : startFrozen[p] => InFrozenCheck(p)
    /\ (last.op = "check_anomalies" /\ last.info.wasFrozen) =>
           /\ last.ok
           /\ last.why = "frozen"
           /\ last.info.rsn # <<>>
           /\ last.info.rsn = freeze_reason[last.sess].v

\* A request arriving in the last minute of the freeze, after the traffic
\* stopped and the request counter expired, was answered "Session frozen".
C11_Witness ==
    /\ last.op = "check_anomalies"
    /\ last.info.wasFrozen
    /\ last.why = "frozen"
    /\ last.info.rsn[1] = "rate"
    /\ request_count[last.sess] = AbsentInt
    /\ now + TickSeconds >= frozen_until[last.sess].v

\* A call reported the session frozen.
ReportedFrozen(l) == l.why = "frozen" \/ (l.op = "get_session_stats" /\ l.ok)


\* C12: a freeze expires by itself.  A status read (is_session_frozen,
\* get_session_stats or the frozen check of check_anomalies) that starts when
\* no freeze is in force - none was written, the freeze duration has elapsed,
\* the stored frozen_until lies in the past, or an explicit unfreeze was done -
\* and that does not freeze the session itself, reports not frozen and
\* leaves both freeze keys absent.
C12_SelfExpiringFreeze ==
    (/\ last.op \in {"is_session_frozen", "get_session_stats", "check_anomalies"}
     /\ ~last.info.wasFrozen
     /\ last.why \notin {"rate", "loop", "velocity"}) =>
        /\ ~ReportedFrozen(last)
        /\ FreezeKeysAbsent(last.sess)

\* get_session_stats found a frozen_until in the past, deleted both freeze
\* keys and reported not frozen.
C12_Witness ==
    /\ last.op = "get_session_stats"
    /\ ~last.info.wasFrozen
    /\ last.info.cleaned
    /\ ~last.ok
    /\ FreezeKeysAbsent(last.sess)

\* C13: the request-rate window is fixed.  A request that is counted
\* request_count_ttl (60 s) or more after the request that created the
\* counter is counted as 1.
C13_FixedWindow ==
    [][\A p \in Procs :
          (/\ pc[p] = "an_incr"
           /\ pc'[p] = "an_expire"
           /\ created[sess[p]] # None
           /\ now >= created[sess[p]] + request_count_ttl) => cnt'[p] = 1]_vars

\* C14: loop detection fires on the N-th identical request in a row, N =
\* max_identical_requests.  Of a run of identical consecutive requests sent
\* one at a time to a session with no stored fingerprint, the first N - 1
\* pass the loop check and the N-th is rejected with a loop reason and
\* freezes the session.
C14_LoopOnNth ==
    (/\ last.op = "check_anomalies"
     /\ last.why \notin {"frozen", "rate"}
     /\ last.info.run.fresh) =>
        IF last.info.run.n < max_identical_requests
        THEN last.why # "loop"
        ELSE /\ last.ok
             /\ last.why = "loop"
             /\ FrozenWithReason(last.sess)
             /\ freeze_reason[last.sess].v[1] = "loop"
\* C15: a request to a session that is not frozen and below the rate ceiling
\* whose fingerprint differs from the stored one leaves the streak counter
\* cleared and its own fingerprint stored; the identical requests that
\* follow it are counted from scratch, so the count that trips the loop
\* check is the number of repeats within the current run alone.
ReachedLoopCheck(l) == l.op = "check_anomalies" /\ l.why \notin {"frozen", "rate"} /\ l.info.run.n > 0

C15_DifferingResets ==
    ReachedLoopCheck(last) =>
        LET s == last.sess
            run == last.info.run
        IN  /\ run.n = 1 =>
                /\ identical_count[s] = AbsentInt
                /\ last_request_hash[s].v = request_hash(last.info)
                /\ last.why # "loop"
            /\ (run.n > 1 /\ last.why # "loop") => identical_count[s].v = run.n - 1
            /\ last.why = "loop" => freeze_reason[s].v = <<"loop", run.n - 1>>

\* A differing request has passed after a run of repeated requests.
C15_Witness ==
    /\ ReachedLoopCheck(last)
    /\ ~last.ok
    /\ last.info.run.n = 1
    /\ last.info.run.prev >= 2
    /\ identical_count[last.sess] = AbsentInt
    /\ last_request_hash[last.sess].v = request_hash(last.info)
\* C16: a check_anomalies call that reaches the velocity check with the
\* costs of the session's calls of the trailing 60 seconds, its own
\* included, summing to more than velocity_threshold freezes the session
\* with a velocity reason and returns anomalous.  All calls here fall within
\* one second, so the sum is at least the cost of the call itself.
C16_VelocityTrigger ==
    (/\ last.op = "check_anomalies"
     /\ last.why \notin {"frozen", "rate", "loop"}
     /\ last.info.cost > velocity_threshold) =>
        /\ last.ok
        /\ last.why = "velocity"
        /\ FrozenWithReason(last.sess)
        /\ freeze_reason[last.sess].v[1] = "velocity"
\* C17: once every call in flight has completed, frozen_until is stored if
\* and only if freeze_reason is, whatever the interleaving of freezes,
\* explicit unfreezes and lazy cleanups of the session was.
C17_FreezeKeysTogether ==
    AllIdle => \A s \in Sessions : (frozen_until[s] = AbsentInt) <=> (freeze_reason[s] = AbsentText)
\* C18: an explicit unfreeze returns the session to Active.  The first
\* request sent after an administrative unfreeze of a session frozen by the
\* rate limit or by loop detection, with no time passed since the freeze, is
\* not rejected as anomalous and leaves the session unfrozen.
C18_UnfreezeReturnsActive ==
    (last.op = "check_anomalies" /\ last.info.mark = "unfrozen") =>
        /\ ~last.ok
        /\ FreezeKeysAbsent(last.sess)
\* C19: the command-line freeze_session freezes the session.  A call of
\* is_session_frozen or check_anomalies that starts after freeze_session
\* was applied to a session with no freeze stored, with no explicit unfreeze
\* since and before the hour of the freeze is over, reports the session
\* frozen with the reason given.
C19_CliFreezeFreezes ==
    (last.op \in {"is_session_frozen", "check_anomalies"} /\ last.info.mark = "frozen") =>
        /\ last.ok
        /\ last.why = "frozen"
        /\ last.info.rsn = <<"manual", 0>>
\* C20: within one gateway request the steps come in the order anomaly
\* check, cost estimate, budget check, upstream call, deduction.  The
\* upstream call is issued only after check_anomalies returned not
\* anomalous and check_budget returned sufficient, and deduct_cost is
\* invoked only after the upstream call has returned.
PipelineOrder == <<"received", "anomaly_ok", "estimate", "budget_ok", "forward">>

StepsDone(p) ==
    IF pc[p] \in {"dc_read", "dc_write"} THEN 5
    ELSE IF pc[p] = "forward" THEN 4
    ELSE IF pc[p] \in {"cb_get_budget", "cb_set_default", "cb_get_spent"} THEN 3
    ELSE IF pc[p] = "estimate" THEN 2
    ELSE 1

C20_PipelineOrder ==
    \A p \in Procs : trace[p] # <<>> => trace[p] = SubSeq(PipelineOrder, 1, StepsDone(p))

\* A request is being deducted after it went through every step.
C20_Witness ==
    \E p \in Procs : pc[p] = "dc_write" /\ trace[p] = PipelineOrder /\ cost[p] > 0

\* The steps in a sequence of steps.
StepSet(steps) == {steps[i] : i \in 1..Len(steps)}

\* The gateway request whose response is the last one returned.
Responded == last.op = "process_request"

\* C21: a request the anomaly check reports as anomalous is rejected with
\* status 429 and error type rate_limit_exceeded, the decision recorded is
\* blocked_anomaly, and the request is never budget-checked, forwarded or
\* deducted: the anomaly check is its last step.
C21_AnomalyRejected ==
    /\ \A p \in Procs : "anomaly_blocked" \notin StepSet(trace[p])
    /\ (Responded /\ "anomaly_blocked" \in StepSet(last.info.steps)) =>
        /\ last.arg = 429
        /\ last.why = "rate_limit_exceeded"
        /\ last.info.decision = "blocked_anomaly"
        /\ last.info.steps = <<"received", "anomaly_blocked">>

\* An anomalous request was rejected while the other request was in its
\* anomaly check.
C21_Witness ==
    /\ Responded
    /\ last.info.steps = <<"received", "anomaly_blocked">>
    /\ last.arg = 429
    /\ \E p \in Procs : kind[p] = "pipeline"

\* The upstream call of the request answered last ended without a success
\* status.
UpstreamFailed == Responded /\ "forward" \in StepSet(last.info.steps) /\ last.why = "" /\ last.arg # 200

\* C22: when the upstream call ends in a transport failure (504 for a
\* timeout, 502 for a connection failure, 500 for any other) or returns a
\* status other than success, nothing is deducted: the spent of the session
\* after the request is its spent before the request.
C22_NoDeductionOnFailure ==
    UpstreamFailed => spent[last.sess] = last.info.before.spent

\* A request of a session that had spent something ended in a timeout.
C22_Witness ==
    /\ UpstreamFailed
    /\ last.arg = 504
    /\ last.info.before.spent = 3
    /\ spent[last.sess] = 3

\* C23: the upstream call is made at most once for a request, also when it
\* ends in a timeout, a connection failure or an error status; the failure
\* is recorded with decision error and is what the caller gets.
C23_NoRetry ==
    /\ \A p \in Procs : "forward" \in StepSet(trace[p]) => pc[p] \in {"dc_read", "dc_write"}
    /\ UpstreamFailed => last.info.decision = "error" /\ last.arg \in Statuses \ {200}

\* A connection failure was returned to the caller as 502.
C23_Witness ==
    /\ UpstreamFailed
    /\ last.arg = 502
    /\ last.info.decision = "error"
    /\ last.info.steps = <<"received", "anomaly_ok", "estimate", "budget_ok", "forward">>

\* C24: a successful upstream answer is never withheld because of an
\* accounting fault: when the upstream returned a success status, the
\* caller gets that status and that body, also when computing the actual
\* cost or deduct_cost raises.
C24_SuccessNeverWithheld ==
    (Responded /\ last.info.up.status = 200) =>
        /\ last.arg = 200
        /\ last.why = ""
        /\ last.val = last.info.up.usage

\* C25: when the store fails during the anomaly check of a request, the
\* request is answered with a structured service_unavailable error and is
\* not forwarded upstream.
C25_AnomalyStoreFailure ==
    (Responded /\ "anomaly_failed" \in StepSet(last.info.steps)) =>
        /\ last.why = "service_unavailable"
        /\ last.arg = 503
        /\ "forward" \notin StepSet(last.info.steps)

\* C26: when the store fails during the budget check, the request is
\* rejected with 503 service_unavailable, not with 429 insufficient_quota,
\* it is not forwarded upstream and nothing is deducted.
C26_BudgetStoreFailure ==
    (Responded /\ "budget_failed" \in StepSet(last.info.steps)) =>
        /\ last.arg = 503
        /\ last.why = "service_unavailable"
        /\ last.why # "insufficient_quota"
        /\ last.info.decision = "error"
        /\ "forward" \notin StepSet(last.info.steps)
        /\ last.info.up = NoUpstream
        /\ spent[last.sess] = last.info.before.spent

\* The store failed in the budget check of a session that had spent
\* something.
C26_Witness ==
    /\ Responded
    /\ last.info.steps = <<"received", "anomaly_ok", "estimate", "budget_failed">>
    /\ last.arg = 503
    /\ last.info.before.spent = 3

\* C27: a quota rejection writes nothing: when a request is rejected for
\* insufficient budget, the budget key and the spent key of the session,
\* present or absent and with their values, are after the rejection what
\* they were before the request.
C27_QuotaRejectionWritesNothing ==
    (Responded /\ last.why = "insufficient_quota") =>
        /\ budget[last.sess] = last.info.before.budget
        /\ spent[last.sess] = last.info.before.spent

\* The request violates what process_request demands of a request before
\* it looks at the store: a JSON body, the structure its endpoint asks for,
\* a session id when strict_mode is on.
Malformed(r) ==
    \/ r.json = "invalid"
    \/ r.ep = "chat" /\ validate_chat_completion_request(r) # ""
    \/ r.ep = "embeddings" /\ validate_embedding_request(r) # ""
    \/ r.strict /\ r.header = "" /\ r.query = ""

\* C28: a client error is rejected before any state mutation: a request
\* rejected with invalid_request_error (invalid JSON, failed structural
\* validation, no session id in strict mode) has made no store read or
\* write and no upstream call, and no malformed request is ever among the
\* requests that are at a store command or at the upstream call.
C28_ClientErrorBeforeStore ==
    /\ \A p \in Procs : trace[p] # <<>> => ~Malformed(inbound[p])
    /\ (Responded /\ Malformed(last.info.request)) =>
        /\ last.arg = 400
        /\ last.why = "invalid_request_error"
        /\ last.info.steps = <<"refused">>
        /\ last.info.up = NoUpstream
    /\ (Responded /\ last.why = "invalid_request_error") => last.info.steps = <<"refused">>

\* A chat request with an empty list of messages was rejected after the
\* session had been charged, and its ledger is as it was.
C28_Witness ==
    /\ Responded
    /\ last.why = "invalid_request_error"
    /\ last.info.request = [ChatRequest EXCEPT !.messages = "empty"]
    /\ spent["s1"] = 3

\* A gateway request is between its arrival and the end of its budget
\* check.
InAdmission(q) == trace[q] # <<>> /\ pc[q] \notin {"idle", "forward", "dc_read", "dc_write"}

\* The next step of the admission of a request: a command of the anomaly
\* check, the estimate, a command of the budget check.
AdmissionStep(q) ==
    \/ AnomalyStep(q)
    \/ \E e \in SessionEstimates : Estimate(q, e)
    \/ CheckGetBudget(q)
    \/ CheckSetDefault(q)
    \/ CheckGetSpent(q)

\* While a request is suspended in its upstream call, the other process can
\* take the next step of its admission, or start a request of any session.
AdmissionOpen ==
    \A p \in Procs : \A q \in Procs \ {p} : pc[p] = "forward" =>
        /\ InAdmission(q) => ENABLED AdmissionStep(q)
        /\ (Idle(q) /\ quota > 0) => \A s \in Sessions : ENABLED StartPipeline(q, s, "gpt-4", "a", None)

\* The step that ends the budget check of a request and the step in which
\* its upstream call returns write nothing to the store.
QuietAroundUpstream ==
    \A p \in Procs :
        ((pc[p] = "cb_get_spent" /\ pc'[p] = "forward") \/ (pc[p] = "forward" /\ pc'[p] # "forward"))
            => UNCHANGED <<storeVars, anomStore>>

\* C29: a slow upstream call never blocks admission: between the budget
\* check of a request and the return of its upstream call nothing is
\* written to the store and no lock is held, so while one request is
\* suspended in the upstream call another request, of the same session or
\* of another, can run its whole admission.
C29_UpstreamNeverBlocks == [](AdmissionOpen) /\ [][QuietAroundUpstream]_vars

\* Two requests of one session are both suspended in their upstream calls.
C29_Witness ==
    /\ pc["p1"] = "forward"
    /\ pc["p2"] = "forward"
    /\ sess["p1"] = sess["p2"]
    /\ trace["p2"] = <<"received", "anomaly_ok", "estimate", "budget_ok">>

\* All the store keeps about a session: its two ledger keys and its seven
\* anomaly keys.
SessionState(s) ==
    <<budget[s], spent[s], request_count[s], last_request_hash[s], identical_count[s], spend_velocity[s], request_history[s], frozen_until[s], freeze_reason[s]>>

\* The step is one of an operation on session s: a command of a running
\* call for s, or a one-command operation on s.
ActsOn(s) ==
    \/ \E p \in Procs : ~Idle(p) /\ sess[p] = s /\ pc'[p] # pc[p]
    \/ last' # last /\ last'.op \in {"set_budget", "reset_session"} /\ last'.sess = s

\* A step changes the keys of a session only when it is a step of an
\* operation on that session.
OwnKeysOnly == \A s \in Sessions : SessionState(s)' # SessionState(s) => ActsOn(s)

\* A rejection of a request of s2, whose limit nobody sets or resets, is
\* accounted for by the keys of s2 as they are when it is decided: a quota
\* rejection by its limit and spent, an anomaly rejection by a freeze stored
\* for it.  What was done to s1 plays no part.
DecidedOnOwnState ==
    (last' # last /\ last'.op = "process_request" /\ last'.sess = "s2") =>
        /\ last'.why = "insufficient_quota" => get_spent("s2") + last'.info.cost > Limit("s2")
        /\ last'.why = "rate_limit_exceeded" => frozen_until["s2"] # AbsentInt

\* C30: sessions are isolated: operations on one session read and write
\* only that session's keys, leave the budget, spent, counters,
\* fingerprint, velocity, history and freeze of any other session
\* unchanged, and the admission decisions of a session do not depend on
\* what happened to another.
C30_SessionsIsolated == [][OwnKeysOnly /\ DecidedOnOwnState]_vars

\* A request of s2 was served and charged while s1 is frozen.
C30_Witness ==
    /\ Responded
    /\ last.sess = "s2"
    /\ last.arg = 200
    /\ spent["s2"] = 6
    /\ FrozenWithReason("s1")

\* ------------------------------------------------------------------ pricing
\* src/src/pricing/models.py.  A model name and a catalog key are strings,
\* modelled as sequences of characters; the catalog self.prices is a
\* dictionary, which keeps its keys in the order of the pricing file, and is
\* modelled by the sequence of its keys.  The entry of a key is identified
\* with the key.

Chars == {"4", "o"}

Words(n) == UNION {[1..k -> Chars] : k \in 1..n}

\* The catalogs of at most MaxCatalog distinct keys, in every order.
Catalogs ==
    {c \in UNION {[1..k -> Words(MaxKeyLen)] : k \in 0..MaxCatalog} :
        \A i \in DOMAIN c, j \in DOMAIN c : c[i] = c[j] => i = j}

\* str.startswith
startswith(model, key) == Len(key) <= Len(model) /\ SubSeq(model, 1, Len(key)) = key

\* The error get_pricing raises for a model it cannot price.
ValueError == <<"ValueError">>

\* get_pricing: the entry of the key equal to the model name; failing that,
\* the entry of the first key, in the dictionary's order, the model name
\* starts with; failing that, ValueError.
get_pricing(prices, model) ==
    IF \E i \in DOMAIN prices : prices[i] = model THEN model
    ELSE IF \E i \in DOMAIN prices : startswith(model, prices[i])
         THEN LET i == CHOOSE i \in DOMAIN prices :
                           /\ startswith(model, prices[i])
                           /\ \A j \in 1..(i - 1) : ~startswith(model, prices[j])
              IN prices[i]
         ELSE ValueError

\* One call of get_pricing.
GetPricing ==
    /\ lookup.result = <<>>
    /\ lookup' = [lookup EXCEPT !.result = get_pricing(lookup.prices, lookup.model)]
    /\ UNCHANGED <<storeVars, procVars, ghostVars, anomVars, trace, snap, upstream, inbound>>

InitPricing ==
    /\ AnomalyInit
    /\ IdleLedger
    /\ warm = 0
    /\ quota = 0
    /\ lookup \in [prices : Catalogs, model : Words(MaxNameLen), result : {<<>>}]

NextPricing == GetPricing

SpecPricing == InitPricing /\ [][NextPricing]_vars

\* The keys of the catalog the model name starts with.
PrefixKeys(prices, model) == {prices[i] : i \in {j \in DOMAIN prices : startswith(model, prices[j])}}

\* C31: get_pricing returns the entry of the key equal to the model name if
\* there is one; otherwise the entry of the longest key that is a prefix of
\* the model name, whatever the order of the keys; ValueError if no key is
\* a prefix.
C31_LongestPrefix ==
    lookup.result # <<>> =>
        LET keys == PrefixKeys(lookup.prices, lookup.model)
        IN IF lookup.model \in keys THEN lookup.result = lookup.model
           ELSE IF keys = {} THEN lookup.result = ValueError
           ELSE /\ lookup.result \in keys
                /\ \A k \in keys : Len(k) <= Len(lookup.result)

\* The calls that unfreeze a session explicitly: the command-line tool's and
\* the dashboard's.
UnfreezeKinds == {"cli_unfreeze", "dash_unfreeze"}

\* The step is a command of an explicit unfreeze by process p.
UnfreezeStep(p) == kind[p] \in UnfreezeKinds \/ kind'[p] \in UnfreezeKinds

\* The session process p's unfreeze is for.
Unfrozen(p) == IF kind[p] \in UnfreezeKinds THEN sess[p] ELSE sess'[p]

\* A command of an explicit unfreeze changes no key but the two freeze keys
\* of its session, and none at all when both were already absent; when the
\* call returns it reports success and both keys are absent.
UnfreezeFrame ==
    \A p \in Procs : UnfreezeStep(p) =>
        /\ UNCHANGED <<budget, spent, request_count, last_request_hash, identical_count, spend_velocity, request_history>>
        /\ \A s \in Sessions \ {Unfrozen(p)} : UNCHANGED <<frozen_until[s], freeze_reason[s]>>
        /\ FreezeKeysAbsent(Unfrozen(p)) => UNCHANGED <<frozen_until, freeze_reason>>
        /\ kind'[p] \notin UnfreezeKinds =>
            /\ last'.op = "unfreeze_session" /\ last'.ok
            /\ frozen_until'[Unfrozen(p)] = AbsentInt
            /\ freeze_reason'[Unfrozen(p)] = AbsentText

\* C32: an explicit unfreeze deletes the two freeze keys of the session and
\* nothing else: the request counter, the fingerprint, the identical
\* counter, the velocity set, the history, the budget and the spent amount
\* are as before; it succeeds whether or not the session was frozen, and
\* repeating it changes nothing.
C32_UnfreezeDeletesFreezeOnly == [][UnfreezeFrame]_vars

\* An unfreeze of a session frozen by the engine has returned; the request
\* counter that tripped the freeze is still stored.
C32_Witness ==
    /\ last.op = "unfreeze_session"
    /\ adminMark["s1"] = "unfrozen"
    /\ request_count["s1"] # AbsentInt
    /\ request_history["s1"] # AbsentText

\* The request whose response is the last one returned reached the upstream
\* call.
Forwarded == Responded /\ "forward" \in StepSet(last.info.steps)

\* The calls of deduct_cost the request made: the steps at which one
\* returned or raised.
DeductCalls(steps) == {i \in 1..Len(steps) : steps[i] \in {"deducted", "deduct_failed"}}

\* The upstream answered with success and a body that carries a usage
\* object.
SuccessWithUsage(up) == up.status = 200 /\ up.usage \notin {None, BadUsage}

\* C33: for every request that reached the upstream call, deduct_cost is
\* invoked, exactly once and with the actual cost computed from the reported
\* usage, if and only if the upstream answered with a success status and the
\* response carries a usage object; in every other case the ledger is not
\* written.
C33_DeductIffSuccessWithUsage ==
    Forwarded =>
        IF SuccessWithUsage(last.info.up)
        THEN /\ Cardinality(DeductCalls(last.info.steps)) = 1
             /\ last.info.cost = last.info.up.usage
        ELSE /\ DeductCalls(last.info.steps) = {}
             /\ spent[last.sess] = last.info.before.spent

\* The last call returned is a check_anomalies call that reached the
\* velocity step.
ReachedVelocity == last.op = "check_anomalies" /\ last.why \notin {"frozen", "rate", "loop"}

\* The entries of the session's velocity set.
VelocityEntries(s) == {spend_velocity[s].v[i] : i \in 1..Len(spend_velocity[s].v)}

\* C34: after a completed check_anomalies call that reached the velocity
\* step the velocity set holds the entries recorded in the trailing 60
\* seconds: none is older than 60 seconds and the one just recorded, with
\* the time and the cost of the call, is among them.
C34_VelocityWindow ==
    ReachedVelocity =>
        /\ \A e \in VelocityEntries(last.sess) : e.member > now - velocity_window
        /\ [member |-> now, score |-> last.info.cost] \in VelocityEntries(last.sess)

\* ------------------------------------------------------------ audit history
\* A session that has been served before: n requests passed every check, one
\* every SpacedApart seconds, the last of them LongAgo seconds ago.  The
\* history holds their entries, newest first, and every other key of the
\* session has expired since.
SpacedApart == request_count_ttl + 1

LongAgo == identical_count_ttl + 1

PastHistory(n) ==
    IF n = 0 THEN AbsentText
    ELSE [v |-> [i \in 1..n |-> [timestamp |-> EpochStart - LongAgo - SpacedApart * (i - 1), model |-> "gpt-4", cost |-> 0]],
          exp |-> EpochStart - LongAgo + history_ttl]

\* How many requests the session was served before the run starts.
PastRequests == {0, history_keep - 1, history_keep}

InitHistory ==
    /\ IdleLedger
    /\ lookup = NoLookup
    /\ warm = 0
    /\ quota = LoopRequests
    /\ now = EpochStart
    /\ request_count = [s \in Sessions |-> AbsentInt]
    /\ last_request_hash = [s \in Sessions |-> AbsentText]
    /\ identical_count = [s \in Sessions |-> AbsentInt]
    /\ spend_velocity = [s \in Sessions |-> AbsentText]
    /\ \E n \in PastRequests : request_history = [s \in Sessions |-> IF s = "s1" THEN PastHistory(n) ELSE AbsentText]
    /\ frozen_until = [s \in Sessions |-> AbsentInt]
    /\ freeze_reason = [s \in Sessions |-> AbsentText]
    /\ req = [p \in Procs |-> NoReq]
    /\ cnt = [p \in Procs |-> 0]
    /\ ident = [p \in Procs |-> 0]
    /\ reason = [p \in Procs |-> <<>>]
    /\ vnow = [p \in Procs |-> 0]
    /\ life = [p \in Procs |-> 0]
    /\ lifetime = [s \in Sessions |-> 0]
    /\ passedRate = [s \in Sessions |-> 0]
    /\ startFrozen = [p \in Procs |-> FALSE]
    /\ created = [s \in Sessions |-> None]
    /\ cleaned = [p \in Procs |-> FALSE]
    /\ streak = [s \in Sessions |-> NoStreak]
    /\ adminMark = [s \in Sessions |-> "none"]
    /\ markAtStart = [p \in Procs |-> "none"]
    /\ trace = [p \in Procs |-> <<>>]
    /\ snap = [p \in Procs |-> NoSnap]
    /\ upstream = [p \in Procs |-> NoUpstream]
    /\ inbound = [p \in Procs |-> NoInbound]

SpecHistory == InitHistory /\ [][NextLoop]_vars

\* The entries of the session's history, newest first.
History(s) == request_history[s].v

\* The entry _log_request builds for the call of process p.
LogEntry(p) == [timestamp |-> now, model |-> req[p].model, cost |-> cost[p]]

\* Between calls the history holds at most history_keep entries, none newer
\* than the one before it.
BoundedNewestFirst ==
    AllIdle => \A s \in Sessions :
        /\ Len(History(s)) <= history_keep
        /\ \A i \in 1..(Len(History(s)) - 1) : History(s)[i].timestamp >= History(s)[i + 1].timestamp

\* The history changes only when a call puts its entry at the head or drops
\* the entries past the first history_keep; a call that returns anomalous
\* has not changed it; a call that returns not anomalous leaves its entry
\* at the head.
RingStep ==
    /\ \A s \in Sessions : History(s)' # History(s) =>
           \E p \in Procs :
               /\ sess[p] = s
               /\ \/ History(s)' = <<LogEntry(p)>> \o History(s)
                  \/ History(s)' = SubSeq(History(s), 1, history_keep)
               /\ pc'[p] # "idle" \/ ~last'.ok
    /\ \A p \in Procs : (~Idle(p) /\ pc'[p] = "idle" /\ last'.op = "check_anomalies") =>
           IF last'.ok THEN UNCHANGED request_history
           ELSE /\ History(sess[p])' # <<>>
                /\ Head(History(sess[p])') = LogEntry(p)

\* C35: the history is a bounded ring: after every completed check_anomalies
\* call it holds at most 100 entries, the most recent requests that passed
\* every anomaly check, newest first; a request rejected as anomalous adds
\* no entry.
C35_HistoryRing == [](BoundedNewestFirst) /\ [][RingStep]_vars

\* A request passed with the history full: its entry is at the head and the
\* oldest entry was dropped.
C35_Witness ==
    /\ last.op = "check_anomalies"
    /\ ~last.ok
    /\ Len(History("s1")) = history_keep
    /\ History("s1")[1].timestamp = now
    /\ History("s1")[history_keep].timestamp = PastHistory(history_keep).v[history_keep - 1].timestamp

\* The step is a command of a check_anomalies call of process p that finds
\* the session frozen: the read of frozen_until that finds a freeze in
\* force, or the read of the reason and the return that follow it.
FrozenRejectionStep(p) ==
    /\ kind[p] \notin {"is_frozen", "stats"}
    /\ \/ pc[p] = "an_frozen" /\ pc'[p] = "an_reason"
       \/ pc[p] = "an_reason" /\ pc'[p] # "an_reason"

\* A call returns "Session frozen" only by those commands, and they leave
\* every anomaly key as it was.
FrozenRejectionFrame ==
    /\ \A p \in Procs : FrozenRejectionStep(p) =>
           UNCHANGED <<request_count, last_request_hash, identical_count, spend_velocity, request_history, frozen_until, freeze_reason>>
    /\ (last' # last /\ last'.op = "check_anomalies" /\ last'.why = "frozen") =>
           \E p \in Procs : FrozenRejectionStep(p) /\ pc[p] = "an_reason"

\* C36: a request rejected because its session is already frozen changes no
\* anomaly state: request counter, fingerprint, identical counter, velocity
\* set, history, frozen_until and freeze_reason are as before; the freeze is
\* not extended and the request is not counted.
C36_FrozenRejectionWritesNothing == [][FrozenRejectionFrame]_vars

\* A request was rejected as frozen some time into the freeze, after the
\* request counter expired: the freeze still ends when it was to end and no
\* counter was created.
C36_Witness ==
    /\ last.op = "check_anomalies"
    /\ last.why = "frozen"
    /\ now > EpochStart
    /\ frozen_until[last.sess].v = EpochStart + freeze_duration_seconds
    /\ request_count[last.sess] = AbsentInt

\* ---------------------------------------------------------- end of a freeze
\* Requests of one session going through check_anomalies while time passes,
\* from a burst that fills the request counter to the ceiling until well
\* after the freeze it provokes.  A request takes no time; requests for a
\* frozen session keep arriving without end.

\* Until when new traffic arrives, and how far the clock is followed.
ThawStart == freeze_duration_seconds + TickSeconds

ThawHorizon == ThawStart + freeze_duration_seconds + TickSeconds

\* One more request for a session whose freeze is stored enters
\* check_anomalies(s, m, msgs, None, 0).
StartDuringFreeze(p, s, m, msgs) ==
    /\ Idle(p)
    /\ p = "p2" => ~Idle("p1")
    /\ Free
    /\ FrozenWithReason(s)
    /\ pc' = [pc EXCEPT ![p] = "an_frozen"]
    /\ kind' = [kind EXCEPT ![p] = "anomaly"]
    /\ sess' = [sess EXCEPT ![p] = s]
    /\ cost' = [cost EXCEPT ![p] = 0]
    /\ req' = [req EXCEPT ![p] = [model |-> m, messages |-> msgs, max_tokens |-> None]]
    /\ last' = NoLast
    /\ startFrozen' = [startFrozen EXCEPT ![p] = TRUE]
    /\ markAtStart' = [markAtStart EXCEPT ![p] = adminMark[s]]
    /\ UNCHANGED <<ledgerFrame, anomStore, cnt, ident, reason, vnow, life, anomGhost, created, cleaned, streak, adminMark, lookup>>

\* Time passes between requests.
WaitThaw(d) ==
    /\ now + d <= EpochStart + ThawHorizon
    /\ \A p \in Procs : Idle(p)
    /\ Advance(d)

PassTime == \E d \in FreezeWaits : WaitThaw(d)

NextThaw ==
    \/ \E p \in SeqProcs, m \in Models, msgs \in Messages : now <= EpochStart + ThawStart /\ StartAnomaly(p, "s1", m, msgs, None, 0)
    \/ \E p \in SeqProcs, m \in Models, msgs \in Messages : StartWarm(p, "s1", m, msgs, None, 0)
    \/ \E p \in SeqProcs, m \in Models, msgs \in Messages : StartDuringFreeze(p, "s1", m, msgs)
    \/ \E p \in SeqProcs : AnomalyStep(p)
    \/ PassTime

\* Every request that was received is served to its end, and the clock does
\* not stop, however often requests arrive.
SpecThaw ==
    /\ InitFreeze
    /\ [][NextThaw]_vars
    /\ \A p \in SeqProcs : WF_vars(AnomalyStep(p))
    /\ SF_vars(PassTime)

\* A request that finds no freeze in force at its frozen check goes on to
\* the rate check, after deleting what is left of an expired freeze.
EvaluatedAgain ==
    \A p \in Procs :
        (/\ kind[p] \in {"anomaly", "warm"}
         /\ pc[p] = "an_frozen"
         /\ pc'[p] # "an_frozen"
         /\ ~IsFrozen(sess[p])) => pc'[p] \in {"an_incr", "an_unf_until"}

\* C37: a session frozen by the anomaly engine becomes active again without
\* an explicit unfreeze, also when requests for it keep arriving and being
\* rejected during the whole freeze; once the freeze has expired a request
\* is evaluated by the rate, loop and velocity checks again.
C37_FreezeEnds ==
    /\ \A s \in Sessions : FrozenWithReason(s) ~> FreezeKeysAbsent(s)
    /\ [][EvaluatedAgain]_vars

\* A request that arrived in the last minute of the freeze was rejected as
\* frozen, after the request that froze the session; the freeze is to end
\* when it was to end.
C37_Witness ==
    /\ last.op = "check_anomalies"
    /\ last.why = "frozen"
    /\ FrozenWithReason("s1")
    /\ now + TickSeconds >= frozen_until["s1"].v
    /\ quota = MaxRequests - 1

\* ------------------------------------------------- the manager's operations
\* Concurrent calls of BudgetManager alone on one session: set_budget,
\* check_budget, deduct_cost and reset_session, interleaved command by
\* command.
ManagerStep(p, S, C, A) ==
    \/ \E s \in S, a \in A : SetBudget(p, s, a)
    \/ \E s \in S, e \in C : StartCheck(p, s, e, "check")
    \/ CheckGetBudget(p)
    \/ CheckSetDefault(p)
    \/ CheckGetSpent(p)
    \/ \E s \in S, c \in C : StartDeduct(p, s, c)
    \/ DeductRead(p)
    \/ DeductWrite(p)
    \/ \E s \in S : ResetSession(p, s)

NextManager == \E p \in Procs : ManagerStep(p, LedgerSessions, Costs, Amounts)

SpecManager == Init /\ [][NextManager]_vars

\* C38: no spend from before a reset survives it: once reset_session has
\* completed and every deduct_cost in flight at that moment has finished,
\* the spent of the session is at most the sum of the costs of the
\* deductions that completed after the reset.
C38_NoSpendSurvivesReset == AllIdle => \A s \in Sessions : get_spent(s) <= charged[s]

\* C39: a session with a stored spent key has a stored budget key, under
\* any interleaving of set_budget, check_budget, deduct_cost and
\* reset_session, so that listing the budget keys finds every session with
\* recorded spend.
C39_SpentImpliesBudget == \A s \in Sessions : spent[s] # None => budget[s] # None

\* ------------------------------------------------ the ledger, store failing
\* Calls of BudgetManager, one at a time, with the store failing at any
\* command.  The caller notes the two keys of the session before a call of
\* check_budget or deduct_cost, to compare them with what the call leaves.

\* What a read of the ledger returns when its GET raises.
get_budget_failed == None

get_spent_failed == 0

\* get_budget_info lines 95-106 on what get_budget and get_spent returned.
budget_info(b, sp) ==
    LET limit == IF b = None THEN default_budget ELSE b
    IN  [budget |-> limit, spent |-> sp, remaining |-> Max(0, limit - sp)]

\* A read returned v although the store failed; rsn tells which of its GETs
\* failed (budget, spent).
Survived(o, s, v, fb, fs) == [Done(o, s, 0, TRUE, v) EXCEPT !.why = "store_failed", !.info.rsn = <<fb, fs>>]

\* A write raised RuntimeError; found is the two keys as they were when the
\* call began.
Raised(o, s, found) == [Done(o, s, 0, FALSE, 0) EXCEPT !.why = "RuntimeError", !.info.before = found]

Keys(s) == [budget |-> budget[s], spent |-> spent[s]]

\* get_budget lines 57-63: the GET raises, None is returned.
GetBudgetFails(p, s) ==
    /\ Idle(p)
    /\ last' = Survived("get_budget", s, get_budget_failed, TRUE, FALSE)
    /\ UNCHANGED <<storeVars, procVars, charged, explicitSet, touched, everSet, everDeducted, anomVars, trace, snap, upstream, inbound, lookup>>

\* get_spent lines 75-82: the GET raises, 0.0 is returned.
GetSpentFails(p, s) ==
    /\ Idle(p)
    /\ last' = Survived("get_spent", s, get_spent_failed, FALSE, TRUE)
    /\ UNCHANGED <<storeVars, procVars, charged, explicitSet, touched, everSet, everDeducted, anomVars, trace, snap, upstream, inbound, lookup>>

\* get_budget_info lines 95-106 with the GET of get_budget failing (fb),
\* the GET of get_spent failing (fs), or both.
GetBudgetInfoFails(p, s, fb, fs) ==
    /\ Idle(p)
    /\ fb \/ fs
    /\ last' = Survived("get_budget_info", s,
                        budget_info(IF fb THEN get_budget_failed ELSE get_budget(s), IF fs THEN get_spent_failed ELSE get_spent(s)), fb, fs)
    /\ UNCHANGED <<storeVars, procVars, charged, explicitSet, touched, everSet, everDeducted, anomVars, trace, snap, upstream, inbound, lookup>>

\* set_budget lines 40-45: the SET raises, RuntimeError.
SetBudgetFails(p, s, a) ==
    /\ Idle(p)
    /\ last' = Raised("set_budget", s, Keys(s))
    /\ UNCHANGED <<storeVars, procVars, charged, explicitSet, touched, everSet, everDeducted, anomVars, trace, snap, upstream, inbound, lookup>>

\* reset_session lines 210-221: the pipeline raises, RuntimeError.
ResetSessionFails(p, s) ==
    /\ Idle(p)
    /\ last' = Raised("reset_session", s, Keys(s))
    /\ UNCHANGED <<storeVars, procVars, charged, explicitSet, touched, everSet, everDeducted, anomVars, trace, snap, upstream, inbound, lookup>>

\* A direct call of check_budget(s, e), the keys noted.
ObservedCheck(p, s, e) ==
    /\ Idle(p)
    /\ pc' = [pc EXCEPT ![p] = "cb_get_budget"]
    /\ kind' = [kind EXCEPT ![p] = "check"]
    /\ sess' = [sess EXCEPT ![p] = s]
    /\ cost' = [cost EXCEPT ![p] = e]
    /\ snap' = [snap EXCEPT ![p] = Keys(s)]
    /\ last' = NoLast
    /\ UNCHANGED <<storeVars, rbudget, rspent, charged, explicitSet, touched, everSet, everDeducted, anomVars, trace, upstream, inbound, lookup>>

\* A direct call of deduct_cost(s, c), the keys noted.
ObservedDeduct(p, s, c) ==
    /\ Idle(p)
    /\ get_spent(s) + c <= MaxSpent
    /\ pc' = [pc EXCEPT ![p] = "dc_read"]
    /\ kind' = [kind EXCEPT ![p] = "deduct"]
    /\ sess' = [sess EXCEPT ![p] = s]
    /\ cost' = [cost EXCEPT ![p] = c]
    /\ snap' = [snap EXCEPT ![p] = Keys(s)]
    /\ last' = NoLast
    /\ UNCHANGED <<storeVars, rbudget, rspent, charged, explicitSet, touched, everSet, everDeducted, anomVars, trace, upstream, inbound, lookup>>

\* check_budget lines 144-146: one of its commands (GET budget, SET budget,
\* GET spent) raises, RuntimeError.
CheckBudgetFails(p) ==
    /\ kind[p] = "check"
    /\ pc[p] \in {"cb_get_budget", "cb_set_default", "cb_get_spent"}
    /\ last' = Raised("check_budget", sess[p], snap[p])
    /\ Return(p)
    /\ UNCHANGED <<storeVars, charged, explicitSet, touched, everSet, everDeducted, anomVars, lookup>>

\* deduct_cost lines 197-198: one of its two pipelines raises, RuntimeError.
DeductCostFails(p) ==
    /\ kind[p] = "deduct"
    /\ trace[p] = <<>>
    /\ pc[p] \in {"dc_read", "dc_write"}
    /\ last' = Raised("deduct_cost", sess[p], snap[p])
    /\ Return(p)
    /\ UNCHANGED <<storeVars, charged, explicitSet, touched, everSet, everDeducted, anomVars, lookup>>

FaultStep(p, S, C, A) ==
    \/ \E s \in S, a \in A : SetBudget(p, s, a)
    \/ \E s \in S, a \in A : SetBudgetFails(p, s, a)
    \/ \E s \in S : GetBudgetFails(p, s)
    \/ \E s \in S : GetSpentFails(p, s)
    \/ \E s \in S, fb \in BOOLEAN, fs \in BOOLEAN : GetBudgetInfoFails(p, s, fb, fs)
    \/ \E s \in S, e \in C : ObservedCheck(p, s, e)
    \/ CheckGetBudget(p)
    \/ CheckSetDefault(p)
    \/ CheckGetSpent(p)
    \/ CheckBudgetFails(p)
    \/ \E s \in S, c \in C : ObservedDeduct(p, s, c)
    \/ DeductRead(p)
    \/ DeductWrite(p)
    \/ DeductCostFails(p)
    \/ \E s \in S : ResetSession(p, s)
    \/ \E s \in S : ResetSessionFails(p, s)

NextFaults == \E p \in SeqProcs : FaultStep(p, LedgerSessions, SeqCosts, SeqAmounts)

SpecFaults == Init /\ [][NextFaults]_vars

\* The step returns from a call that met a store failure: what the call
\* gave its caller and what it left in the store.
FailureHandled ==
    (last' # last /\ last'.why \in {"store_failed", "RuntimeError"}) =>
        /\ last'.op = "get_budget" => last'.ok /\ last'.val = None
        /\ last'.op = "get_spent" => last'.ok /\ last'.val = 0
        /\ (last'.op = "get_budget_info" /\ last'.info.rsn = <<TRUE, TRUE>>) =>
               last'.ok /\ last'.val = [budget |-> default_budget, spent |-> 0, remaining |-> default_budget]
        /\ last'.op \in {"check_budget", "deduct_cost", "set_budget", "reset_session"} =>
               /\ ~last'.ok
               /\ [budget |-> budget'[last'.sess], spent |-> spent'[last'.sess]] = last'.info.before

\* C40: on a store failure the reads of the ledger do not raise: get_budget
\* returns absent, get_spent returns 0 and get_budget_info returns the
\* default limit with spent 0 and the default as remaining; check_budget,
\* deduct_cost, set_budget and reset_session raise an error and leave the
\* store as it was.
C40_StoreFailure == [][FailureHandled]_vars
====
